---------------------------- MODULE Spec2Model ----------------------------
(***************************************************************************)
(* A model of the command-line scripts of ADT-manual-autocuidados:         *)
(*   - script development/regenerate_text.py   (asynchronous regeneration) *)
(*   - assets/utils/calculate_timecodes_prog.py (forced-alignment run)     *)
(*   - translate_gpt5.py and script development/translate_page_range.py    *)
(*                                                                         *)
(* Strings are sequences of one-character strings, so that prefix tests,   *)
(* str.split, str.strip, re.match and int() are computed and not assumed.  *)
(* A JSON object (a Python dict) is a sequence of <<key, value>> pairs     *)
(* with distinct keys: Python dicts keep insertion order, and the order    *)
(* decides which requests are issued first.  A file on disk is "missing",  *)
(* "malformed" (not JSON) or a dict.  Writing a file never fails.          *)
(***************************************************************************)
EXTENDS Integers, Sequences, FiniteSets, TLC

(***************************************************************************)
(* Bounds of the model.                                                    *)
(***************************************************************************)
\* Non-blank text-1-<i> entries of the English table: one more than the
\* semaphore admits, so that a request has to wait for a permit.
NumTexts == 11
\* Page arguments range over 1..MaxPage.
MaxPage == 2
\* Non-blank texts of the English table in the runs followed from their
\* start (the Spanish table holds two).
FewTexts == 1

(***************************************************************************)
(* Characters and strings.                                                 *)
(***************************************************************************)
Digits == <<"0", "1", "2", "3", "4", "5", "6", "7", "8", "9">>

IsDigit(c) == \E d \in 1..10 : Digits[d] = c

DigitVal(c) == (CHOOSE d \in 1..10 : Digits[d] = c) - 1

\* str.isspace for the characters used here (blank and line feed).
IsSpace(c) == c \in {" ", "\n"}

AllDigits(s) == \A i \in 1..Len(s) : IsDigit(s[i])

\* s[from..] (Python s[from-1:]).
Drop(s, n) == SubSeq(s, n + 1, Len(s))

Take(s, n) == SubSeq(s, 1, n)

\* str.startswith
StartsWith(s, p) == Len(s) >= Len(p) /\ Take(s, Len(p)) = p

\* str(n) for an integer n (f-string and map(str, ...) formatting).
RECURSIVE StrNat(_)
StrNat(n) == IF n < 10 THEN <<Digits[n + 1]>>
             ELSE StrNat(n \div 10) \o <<Digits[(n % 10) + 1]>>

Str(n) == IF n < 0 THEN <<"-">> \o StrNat(0 - n) ELSE StrNat(n)

\* The value of a non-empty string of decimal digits.
RECURSIVE DigitsVal(_)
DigitsVal(s) == IF Len(s) = 0 THEN 0
                ELSE 10 * DigitsVal(Take(s, Len(s) - 1)) + DigitVal(s[Len(s)])

\* str.strip(): leading and trailing white space removed.
RECURSIVE LStrip(_)
LStrip(s) == IF Len(s) > 0 /\ IsSpace(s[1]) THEN LStrip(Tail(s)) ELSE s

RECURSIVE RStrip(_)
RStrip(s) == IF Len(s) > 0 /\ IsSpace(s[Len(s)]) THEN RStrip(Take(s, Len(s) - 1)) ELSE s

Strip(s) == RStrip(LStrip(s))

\* Position of the first c in s, 0 when there is none.
RECURSIVE IndexOf(_, _, _)
IndexOf(s, c, from) == IF from > Len(s) THEN 0
                       ELSE IF s[from] = c THEN from
                       ELSE IndexOf(s, c, from + 1)

\* str.split(c): the fields between the occurrences of c.
RECURSIVE Split(_, _)
Split(s, c) == LET i == IndexOf(s, c, 1)
               IN  IF i = 0 THEN <<s>>
                   ELSE <<Take(s, i - 1)>> \o Split(Drop(s, i), c)

\* int(s) of Python on these characters: white space around the digits is
\* ignored; IntParses is FALSE where int(s) raises ValueError.
IntParses(s) == Len(Strip(s)) > 0 /\ AllDigits(Strip(s))

IntOf(s) == DigitsVal(Strip(s))

\* str.replace(old, "") : every occurrence of old removed, left to right.
RECURSIVE RemoveAll(_, _)
RemoveAll(s, old) == IF Len(s) = 0 THEN s
                     ELSE IF StartsWith(s, old) THEN RemoveAll(Drop(s, Len(old)), old)
                     ELSE <<s[1]>> \o RemoveAll(Tail(s), old)

\* Code point order of the characters, for sort_keys=True.
CharOrder == <<"\n", " ", "-", "0", "1", "2", "3", "4", "5", "6", "7", "8", "9",
               "[", "]", "a", "c", "d", "e", "g", "i", "l", "m", "n", "o", "r", "s",
               "t", "x", "y">>

CharCode(c) == IF \E i \in 1..Len(CharOrder) : CharOrder[i] = c
               THEN CHOOSE i \in 1..Len(CharOrder) : CharOrder[i] = c
               ELSE Len(CharOrder) + 1

\* a < b as Python compares str.
RECURSIVE StrLess(_, _)
StrLess(a, b) == IF Len(b) = 0 THEN FALSE
                 ELSE IF Len(a) = 0 THEN TRUE
                 ELSE IF a[1] = b[1] THEN StrLess(Tail(a), Tail(b))
                 ELSE CharCode(a[1]) < CharCode(b[1])

(***************************************************************************)
(* Keys.                                                                   *)
(***************************************************************************)
TextPrefix == <<"t", "e", "x", "t", "-">>

EasyreadPrefix == <<"e", "a", "s", "y", "r", "e", "a", "d", "-">>

Eli5Prefix == <<"s", "e", "c", "t", "i", "o", "n", "e", "l", "i", "5", "-">>

\* The key text-<page>-<index>.
TextKey(p, i) == TextPrefix \o Str(p) \o <<"-">> \o Str(i)

\* re.match of ^<prefix>(\d+)-(\d+)$ on key: the two groups, or <<>> when
\* the key does not match.  "$" also matches just before one final line feed.
ReMatchKey(prefix, key) ==
    LET body == IF Len(key) > 0 /\ key[Len(key)] = "\n" THEN Take(key, Len(key) - 1) ELSE key
        rest == Drop(body, Len(prefix))
        dash == IndexOf(rest, "-", 1)
        g1   == Take(rest, dash - 1)
        g2   == Drop(rest, dash)
    IN  IF StartsWith(body, prefix) /\ dash > 1
           /\ Len(g2) > 0 /\ AllDigits(g1) /\ AllDigits(g2)
        THEN <<g1, g2>>
        ELSE <<>>

\* re.match(r'^text-(\d+)-(\d+)$', key)
ReMatchTextKey(key) == ReMatchKey(TextPrefix, key)

(***************************************************************************)
(* Dicts: sequences of <<key, value>> with distinct keys.                  *)
(***************************************************************************)
DictKeys(d) == {d[i][1] : i \in 1..Len(d)}

HasKey(d, k) == \E i \in 1..Len(d) : d[i][1] = k

\* d[k]
Get(d, k) == d[CHOOSE i \in 1..Len(d) : d[i][1] = k][2]

\* d[k] = v
Put(d, k, v) == IF HasKey(d, k)
                THEN [i \in 1..Len(d) |-> IF d[i][1] = k THEN <<k, v>> ELSE d[i]]
                ELSE Append(d, <<k, v>>)

\* dict.update: d after d.update(new).
RECURSIVE DictUpdate(_, _)
DictUpdate(d, new) == IF Len(new) = 0 THEN d
                      ELSE DictUpdate(Put(d, new[1][1], new[1][2]), Tail(new))

\* The entries of d in ascending key order (json.dump(..., sort_keys=True)).
RECURSIVE SortKeys(_)
SortKeys(d) ==
    IF Len(d) = 0 THEN d
    ELSE LET m == CHOOSE i \in 1..Len(d) :
                     \A j \in 1..Len(d) : j = i \/ StrLess(d[i][1], d[j][1])
         IN  <<d[m]>> \o SortKeys(SubSeq(d, 1, m - 1) \o SubSeq(d, m + 1, Len(d)))

(***************************************************************************)
(* Files.  A file is [st |-> "missing" | "malformed" | "ok", d |-> dict].  *)
(***************************************************************************)
Missing == [st |-> "missing", d |-> <<>>]

Malformed == [st |-> "malformed", d |-> <<>>]

\* A file that holds the entries of d and that json.load cannot parse (a
\* syntax error somewhere in it).
Unparsable(d) == [st |-> "malformed", d |-> d]

File(d) == [st |-> "ok", d |-> d]

(***************************************************************************)
(* State.                                                                  *)
(***************************************************************************)
VARIABLES
    script,         \* the script this run executes
    pc,             \* where the script is
    args,           \* the parsed command line
    fs,             \* the files: name -> file
    api_calls,      \* every outbound request issued so far, in order
    exit_code,      \* the exit status of the process, -1 while it runs
    \* regenerate_text.py
    pair,           \* index of the (language, type) pair being processed
    filtered_texts, \* target key -> original text of the current pair
    semaphore,      \* permits left of self.semaphore
    in_flight,      \* target keys whose task holds a permit
    waiters,        \* target keys in the semaphore's waiter queue, in order
    ready,          \* the callbacks the event loop has still to run, in order
    queued,         \* target keys whose request waits for an executor thread
    taken,          \* target keys a thread has taken and not yet sent
    answered,       \* target key -> text, request over and task not resumed
    task_results,   \* target key -> text returned by its finished task
    run_results,    \* per finished pair: language, type, counts, texts
    \* calculate_timecodes_prog.py
    timecode_results, \* the global dict of alignment results
    output_file,    \* the global naming the output file
    data,           \* the loaded input: texts and audioFiles
    item,           \* position of the loop over texts.items()
    client,         \* "none" or "connected"
    attempt,        \* the loop variable of the connection loop
    wait_time,      \* the seconds the script sleeps before the next attempt
    conn_log,       \* outcome of every connection attempt, in order
    slept,          \* the sleeps completed, in order
    signalled,      \* SIGINT or SIGTERM was handled
    uncaught,       \* the exception that ended the script, or "none"
    \* translate_gpt5.py and translate_page_range.py
    page_texts,     \* the extracted Spanish texts, in processing order
    english_translations, \* text id -> English text produced so far
    translation_context,  \* GPT5Translator.translation_context
    next_text,      \* position of the loop over page_texts
    last_merge,     \* the last merge into a table: file, its state before, the new entries
    prompts,        \* per translation request: the context pairs put in its prompt
    \* regenerate-easy-read-v2.py
    source_translations, \* the table read from SOURCE_FILE
    er_result,      \* result, the table that will be written to TARGET_FILE
    er_item,        \* position of the loop over source_translations.items()
    \* generate-eli5.py and generate-image-descriptions.py
    i18n_data,      \* language -> table, as loaded and updated
    file_idx,       \* position of the loop over the HTML files
    lang_idx,       \* position of the loop over the languages (ELI5) or images
    updated,        \* process_html_file's flag for the current file
    any_updated,    \* process_all_files' flag
    stripped,       \* the images whose redundant aria attributes were removed
    \* a second, concurrent run of save_generated_texts on the same table
    other_pc,       \* "idle", "start", "loaded", "opened", "done" or "failed"
    other_existing  \* the table that run has loaded

vars == <<script, pc, args, fs, api_calls, exit_code, pair, filtered_texts,
          semaphore, in_flight, waiters, ready, queued, taken, answered,
          task_results, run_results,
          timecode_results, output_file, data, item, client, attempt,
          wait_time, conn_log, slept, signalled, uncaught,
          page_texts, english_translations, translation_context, next_text,
          last_merge, prompts, source_translations, er_result, er_item,
          i18n_data, file_idx, lang_idx, updated, any_updated, stripped,
          other_pc, other_existing>>

easyVars == <<source_translations, er_result, er_item>>

genVars == <<i18n_data, file_idx, lang_idx, updated, any_updated, stripped>>

raceVars == <<other_pc, other_existing>>

moreVars == <<prompts, easyVars, genVars, raceVars>>

\* The state of regenerate-easy-read-v2.py in a run of another script.
EasyIdle == source_translations = <<>> /\ er_result = <<>> /\ er_item = 1

\* The state of the two generators in a run of another script.
GenIdle ==
    /\ i18n_data = [es |-> <<>>, en |-> <<>>]
    /\ file_idx = 1 /\ lang_idx = 1
    /\ updated = FALSE /\ any_updated = FALSE /\ stripped = {}

\* No second run.
RaceIdle == other_pc = "idle" /\ other_existing = <<>>

translateVars == <<page_texts, english_translations, translation_context, next_text>>

NoMerge == [file |-> "none", before |-> Missing, new |-> <<>>]

\* The state of the translation scripts in a run of another script.
TranslateIdle ==
    /\ page_texts = <<>> /\ english_translations = <<>>
    /\ translation_context = <<>> /\ next_text = 1

timecodeVars == <<timecode_results, output_file, data, item, client, attempt,
                  wait_time, conn_log, slept, signalled>>

\* The state of calculate_timecodes_prog.py in a run of another script.
TimecodeIdle ==
    /\ timecode_results = <<>> /\ output_file = "timecode_output.json"
    /\ data = [texts |-> <<>>, audio_files |-> <<>>]
    /\ item = 1 /\ client = "none" /\ attempt = 0 /\ wait_time = 0
    /\ conn_log = <<>> /\ slept = <<>> /\ signalled = FALSE

regenVars == <<pair, filtered_texts, semaphore, in_flight, waiters, ready, queued,
               taken, answered, task_results, run_results>>

EnFile == "content/i18n/en/texts.json"

EsFile == "content/i18n/es/texts.json"

FileNames == {EnFile, EsFile}

(***************************************************************************)
(* The hosted API.  A chat request answers with a text, with a blank text  *)
(* or fails.  To bound the outcomes of a run, only the requests for the    *)
(* source text "b" can do all three and only those for "c" can fail; the   *)
(* others answer with a text.  Nothing orders the answers of requests     *)
(* that are being served at the same time.                                 *)
(***************************************************************************)
NewText == <<"n", "e", "w", " ">>

ApiOutcomes(text) == IF text = <<"b">> THEN {"text", "blank", "error"}
                     ELSE IF text = <<"c">> THEN {"text", "error"}
                     ELSE {"text"}

(***************************************************************************)
(* regenerate_text.py                                                      *)
(***************************************************************************)
max_concurrent_requests == 10

TextsFile(language) == IF language = "en" THEN EnFile ELSE EsFile

\* load_texts: {} when the file is missing or cannot be parsed.
load_texts(language) ==
    LET f == fs[TextsFile(language)]
    IN  IF f.st = "ok" THEN f.d ELSE <<>>

\* The target key of a source key for a text type; <<>> for another type.
TargetKey(key, text_type) ==
    IF text_type = "easyread" THEN EasyreadPrefix \o key
    ELSE IF text_type = "eli5" THEN Eli5Prefix \o RemoveAll(key, TextPrefix)
    ELSE <<>>

\* Mutant of Selected: the key need not start with 'text-'.
SelectedAnyPrefix(key, start_page, end_page, text_type) ==
    /\ LET parts == Split(key, "-")
       IN  /\ Len(parts) >= 2
           /\ IntParses(parts[2])
           /\ start_page <= IntOf(parts[2])
           /\ IntOf(parts[2]) <= end_page
    /\ text_type \in {"easyread", "eli5"}

\* Whether filter_texts_by_page_range_and_type takes the entry of `key`.
Selected(key, start_page, end_page, text_type) ==
    /\ StartsWith(key, TextPrefix)
    /\ LET parts == Split(key, "-")
       IN  /\ Len(parts) >= 2
           /\ IntParses(parts[2])
           /\ start_page <= IntOf(parts[2])
           /\ IntOf(parts[2]) <= end_page
    /\ text_type \in {"easyread", "eli5"}

RECURSIVE FilterFrom(_, _, _, _, _)
FilterFrom(texts, start_page, end_page, text_type, acc) ==
    IF Len(texts) = 0 THEN acc
    ELSE LET key == texts[1][1]
             nxt == IF Selected(key, start_page, end_page, text_type)
                    THEN Put(acc, TargetKey(key, text_type), texts[1][2])
                    ELSE acc
         IN  FilterFrom(Tail(texts), start_page, end_page, text_type, nxt)

filter_texts_by_page_range_and_type(texts, start_page, end_page, text_type) ==
    FilterFrom(texts, start_page, end_page, text_type, <<>>)

\* Mutant of IsBlank: the text is not stripped before the test.
IsBlankNoStrip(text) == Len(text) = 0

\* generate_text returns at once, without a request, for a blank text.
IsBlank(text) == Len(Strip(text)) = 0

\* Mutant of Locked: a task never has to wait for a permit.
LockedNever == FALSE

\* Semaphore.locked(), the test of acquire(): no permit is left, or a task
\* is already waiting for one.
Locked == semaphore = 0 \/ waiters # <<>>

\* The (language, type) pairs in the order regenerate() visits them.
Pairs == LET ls == args.languages
             ts == args.text_types
         IN  [i \in 1..(Len(ls) * Len(ts)) |->
                 <<ls[((i - 1) \div Len(ts)) + 1], ts[((i - 1) % Len(ts)) + 1]>>]

\* No task has returned.
NoResults == [k \in {} |-> <<>>]

Call(language, key) == [scope |-> language, key |-> key]

SeqToSet(s) == {s[i] : i \in 1..Len(s)}

\* main(): without an API key, and for a start page after the end page,
\* the script returns 1 before anything runs.
RegenMain ==
    /\ script = "regenerate_text" /\ pc = "main"
    /\ IF ~args.api_key \/ args.start_page > args.end_page
       THEN pc' = "exit" /\ exit_code' = 1
       ELSE pc' = "pair" /\ exit_code' = exit_code
    /\ UNCHANGED <<moreVars, script, args, fs, api_calls, regenVars, timecodeVars, uncaught,
                   translateVars, last_merge>>

\* loop.run_in_executor(None, ...): the default ThreadPoolExecutor of the
\* event loop has min(32, os.cpu_count() + 4) threads.
ExecutorThreads == IF args.cpu_count + 4 < 32 THEN args.cpu_count + 4 ELSE 32

\* A callback in the ready queue of the event loop: the first step of a task
\* ("start"), the copy of a finished request's result into the future its
\* task awaits ("set"), the wake-up of that task ("step") and the wake-up of
\* a task that waited for a permit ("wake").
Callback(kind, key) == [kind |-> kind, key |-> key]

\* regenerate_for_language_and_type up to asyncio.gather (line 274), which
\* creates one task per selected text and schedules their first steps in
\* order; a pair with no texts returns (0, 0, {}) and regenerate() records
\* it and goes on.
RegenBeginPair ==
    /\ script = "regenerate_text" /\ pc = "pair" /\ pair <= Len(Pairs)
    /\ LET language == Pairs[pair][1]
           text_type == Pairs[pair][2]
           texts == load_texts(language)
           filtered == filter_texts_by_page_range_and_type(
                           texts, args.start_page, args.end_page, text_type)
       IN  IF Len(filtered) = 0
           THEN /\ run_results' = Append(run_results,
                      [language |-> language, text_type |-> text_type,
                       successes |-> 0, failures |-> 0,
                       filtered_texts |-> filtered, generated_texts |-> <<>>])
                /\ pair' = pair + 1
                /\ UNCHANGED <<pc, filtered_texts, ready>>
           ELSE /\ filtered_texts' = filtered
                /\ ready' = [i \in 1..Len(filtered) |-> Callback("start", filtered[i][1])]
                /\ pc' = "gather"
                /\ UNCHANGED <<pair, run_results>>
    /\ UNCHANGED <<moreVars, script, args, fs, api_calls, exit_code, semaphore, in_flight,
                   waiters, queued, taken, answered, task_results, timecodeVars,
                   uncaught, translateVars, last_merge>>

\* The first step of a task (lines 207-234): a task with a blank text
\* returns "" at once; any other takes a permit and hands its request to the
\* executor, or joins the waiters of the semaphore when it is locked.
RegenTaskStart ==
    /\ script = "regenerate_text" /\ pc = "gather"
    /\ Len(ready) > 0 /\ Head(ready).kind = "start"
    /\ LET key == Head(ready).key
       IN  IF IsBlank(Get(filtered_texts, key))
           THEN /\ task_results' = (key :> <<>>) @@ task_results
                /\ UNCHANGED <<semaphore, in_flight, waiters, queued>>
           ELSE IF ~Locked
           THEN /\ semaphore' = semaphore - 1
                /\ in_flight' = in_flight \cup {key}
                /\ queued' = Append(queued, key)
                /\ UNCHANGED <<waiters, task_results>>
           ELSE /\ waiters' = Append(waiters, key)
                /\ UNCHANGED <<semaphore, in_flight, queued, task_results>>
    /\ ready' = Tail(ready)
    /\ UNCHANGED <<moreVars, script, pc, args, fs, api_calls, exit_code, pair, filtered_texts,
                   taken, answered, run_results, timecodeVars, uncaught, translateVars,
                   last_merge>>

\* The requests that were sent and have not returned: each is in the call
\* client.chat.completions.create of generate_sync, in a thread.
Running == in_flight \ (SeqToSet(queued) \cup taken \cup DOMAIN answered)

\* A thread of the executor takes the oldest request of the work queue
\* (work_queue.get in the worker).  The executor starts a thread per
\* submitted request until it has ExecutorThreads of them, and a thread is
\* busy from the moment it takes a request until the request has returned.
RegenTake ==
    /\ script = "regenerate_text" /\ pc = "gather"
    /\ Len(queued) > 0
    /\ Cardinality(taken \cup Running) < ExecutorThreads
    /\ taken' = taken \cup {Head(queued)}
    /\ queued' = Tail(queued)
    /\ UNCHANGED <<moreVars, script, pc, args, fs, api_calls, exit_code, pair, filtered_texts,
                   semaphore, in_flight, waiters, ready, answered, task_results,
                   run_results, timecodeVars, uncaught, translateVars, last_merge>>

\* A thread that has taken a request sends it (generate_sync, lines
\* 221-232).  The threads run on their own: the requests reach the API in
\* any order.
RegenSend ==
    /\ script = "regenerate_text" /\ pc = "gather"
    /\ \E key \in taken :
         /\ api_calls' = Append(api_calls, Call(Pairs[pair][1], key))
         /\ taken' = taken \ {key}
    /\ UNCHANGED <<moreVars, script, pc, args, fs, exit_code, pair, filtered_texts,
                   semaphore, in_flight, waiters, ready, queued, answered, task_results,
                   run_results, timecodeVars, uncaught, translateVars, last_merge>>

\* The waiters that release() has woken (their future is set, the permit is
\* theirs) and that have not resumed yet: the first ones of the queue.
Woken == max_concurrent_requests - semaphore - Cardinality(in_flight)

\* The text a finished request gives its task: the stripped answer, or ""
\* for an empty answer and for an exception (caught in generate_text).
TaskText(outcome) == IF outcome = "text" THEN Strip(NewText) ELSE <<>>

\* A request returns or fails in its thread, which passes the result to the
\* event loop (call_soon_threadsafe).  Any of the running requests can be
\* the next to return.
RegenAnswer ==
    /\ script = "regenerate_text" /\ pc = "gather"
    /\ \E key \in Running :
         /\ \E outcome \in ApiOutcomes(Get(filtered_texts, key)) :
              answered' = (key :> TaskText(outcome)) @@ answered
         /\ ready' = Append(ready, Callback("set", key))
    /\ UNCHANGED <<moreVars, script, pc, args, fs, api_calls, exit_code, pair, filtered_texts,
                   semaphore, in_flight, waiters, queued, taken, task_results, run_results,
                   timecodeVars, uncaught, translateVars, last_merge>>

\* The event loop copies the result into the future the task awaits, which
\* schedules the wake-up of the task.
RegenSetResult ==
    /\ script = "regenerate_text" /\ pc = "gather"
    /\ Len(ready) > 0 /\ Head(ready).kind = "set"
    /\ ready' = Append(Tail(ready), Callback("step", Head(ready).key))
    /\ UNCHANGED <<moreVars, script, pc, args, fs, api_calls, exit_code, pair, filtered_texts,
                   semaphore, in_flight, waiters, queued, taken, answered, task_results,
                   run_results, timecodeVars, uncaught, translateVars, last_merge>>

\* Semaphore._wake_up_next() with the counter at `value` and `woken` woken
\* waiters among `ws`: the first waiter that is not woken gets the permit
\* and its wake-up is scheduled.
WakeUpNext(value, ws, woken, rdy) ==
    IF Len(ws) > woken
    THEN [value |-> value - 1, ready |-> Append(rdy, Callback("wake", ws[woken + 1]))]
    ELSE [value |-> value, ready |-> rdy]

\* The task of a finished request resumes: it returns its text and leaves
\* 'async with self.semaphore', which releases its permit (release():
\* the counter goes up by one, then _wake_up_next()).
RegenApiReturn ==
    /\ script = "regenerate_text" /\ pc = "gather"
    /\ Len(ready) > 0 /\ Head(ready).kind = "step"
    /\ LET key == Head(ready).key
           released == WakeUpNext(semaphore + 1, waiters, Woken, Tail(ready))
       IN  /\ task_results' = (key :> answered[key]) @@ task_results
           /\ answered' = [k \in DOMAIN answered \ {key} |-> answered[k]]
           /\ in_flight' = in_flight \ {key}
           /\ semaphore' = released.value
           /\ ready' = released.ready
    /\ UNCHANGED <<moreVars, script, pc, args, fs, api_calls, exit_code, pair, filtered_texts,
                   waiters, queued, taken, run_results,
                   timecodeVars, uncaught, translateVars, last_merge>>

\* A woken waiter resumes in acquire(): it leaves the waiter queue, wakes
\* the next waiter when the counter is positive, holds the permit and hands
\* its request to the executor.
RegenAcquire ==
    /\ script = "regenerate_text" /\ pc = "gather"
    /\ Len(ready) > 0 /\ Head(ready).kind = "wake"
    /\ LET key == Head(ready).key
           rest == SelectSeq(waiters, LAMBDA w : w # key)
           acquired == IF semaphore > 0
                       THEN WakeUpNext(semaphore, rest, Woken - 1, Tail(ready))
                       ELSE [value |-> semaphore, ready |-> Tail(ready)]
       IN  /\ waiters' = rest
           /\ semaphore' = acquired.value
           /\ ready' = acquired.ready
           /\ in_flight' = in_flight \cup {key}
           /\ queued' = Append(queued, key)
    /\ UNCHANGED <<moreVars, script, pc, args, fs, api_calls, exit_code, pair, filtered_texts,
                   taken, answered, task_results, run_results,
                   timecodeVars, uncaught, translateVars, last_merge>>

\* asyncio.gather returns when every task has returned.
GatherDone == DOMAIN task_results = DictKeys(filtered_texts)

\* Mutant of ProcessResults: an empty result is not counted.
RECURSIVE ProcessResultsSuccessesOnly(_, _, _)
ProcessResultsSuccessesOnly(tasks, results, acc) ==
    IF Len(tasks) = 0 THEN acc
    ELSE LET key == tasks[1][1]
             nxt == IF Len(results[key]) > 0
                    THEN [acc EXCEPT !.generated_texts = Put(@, key, results[key]),
                                     !.successes = @ + 1]
                    ELSE acc
         IN  ProcessResultsSuccessesOnly(Tail(tasks), results, nxt)

\* The loop over the results of gather, in task order: a text that is not
\* empty is kept and counted as a success, an empty one as a failure.
RECURSIVE ProcessResults(_, _, _)
ProcessResults(tasks, results, acc) ==
    IF Len(tasks) = 0 THEN acc
    ELSE LET key == tasks[1][1]
             nxt == IF Len(results[key]) > 0
                    THEN [acc EXCEPT !.generated_texts = Put(@, key, results[key]),
                                     !.successes = @ + 1]
                    ELSE [acc EXCEPT !.failures = @ + 1]
         IN  ProcessResults(Tail(tasks), results, nxt)

\* Mutant of save_generated_texts: the texts are not written.
save_generated_texts_skipped(file, generated_texts) == file

\* save_generated_texts: the file after the call.  Nothing is written for
\* no texts, nor when the existing file cannot be parsed (the exception is
\* caught and False returned).
save_generated_texts(file, generated_texts) ==
    IF Len(generated_texts) = 0 THEN file
    ELSE IF file.st = "malformed" THEN file
    ELSE File(DictUpdate(file.d, generated_texts))

\* The rest of regenerate_for_language_and_type and of the loop body of
\* regenerate(): count, save, record.
RegenFinishPair ==
    /\ script = "regenerate_text" /\ pc = "gather"
    /\ GatherDone
    /\ LET language == Pairs[pair][1]
           counted == ProcessResults(filtered_texts, task_results,
                          [successes |-> 0, failures |-> 0, generated_texts |-> <<>>])
       IN  /\ fs' = [fs EXCEPT ![TextsFile(language)] =
                        save_generated_texts(@, counted.generated_texts)]
           /\ last_merge' = IF Len(counted.generated_texts) = 0 THEN last_merge
                            ELSE [file |-> TextsFile(language),
                                  before |-> fs[TextsFile(language)],
                                  new |-> counted.generated_texts]
           /\ run_results' = Append(run_results,
                  [language |-> language, text_type |-> Pairs[pair][2],
                   successes |-> counted.successes,
                   failures |-> counted.failures,
                   filtered_texts |-> filtered_texts,
                   generated_texts |-> counted.generated_texts])
    /\ pair' = pair + 1
    /\ pc' = "pair"
    /\ filtered_texts' = <<>>
    /\ task_results' = NoResults
    /\ UNCHANGED <<moreVars, script, args, api_calls, exit_code, semaphore, in_flight, waiters,
                   ready, queued, taken, answered, timecodeVars, uncaught, translateVars>>

RECURSIVE SumFailures(_)
SumFailures(rs) == IF Len(rs) = 0 THEN 0 ELSE rs[1].failures + SumFailures(Tail(rs))

\* main() after regenerate(): the summary and the exit status.
RegenSummary ==
    /\ script = "regenerate_text" /\ pc = "pair" /\ pair > Len(Pairs)
    /\ pc' = "exit"
    /\ exit_code' = IF SumFailures(run_results) > 0 THEN 1 ELSE 0
    /\ UNCHANGED <<moreVars, script, args, fs, api_calls, regenVars, timecodeVars, uncaught,
                   translateVars, last_merge>>

NextRegen == RegenMain \/ RegenBeginPair \/ RegenTaskStart \/ RegenTake \/ RegenSend
             \/ RegenAnswer \/ RegenSetResult \/ RegenApiReturn \/ RegenAcquire \/ RegenFinishPair
             \/ RegenSummary

(***************************************************************************)
(* The tables a run of regenerate_text.py starts from.                     *)
(***************************************************************************)
A == <<"a">>

B == <<"b">>

C == <<"c">>

Old == <<"o", "l", "d">>

ImgKey == <<"i", "m", "g", "-", "1", "-", "0">>

\* An English table: a blank entry, n texts of page 1, an easy-read entry
\* written by an earlier run, and an image entry.
EnTextsOf(n) ==
    <<<<TextKey(1, n), <<" ">>>>>>
    \o [i \in 1..n |-> <<TextKey(1, i - 1), IF i = n THEN C ELSE A>>]
    \o <<<<EasyreadPrefix \o TextKey(1, 1), Old>>,
         <<ImgKey, A>>>>

\* The English table with more texts than the semaphore has permits.
EnTexts == EnTextsOf(NumTexts)

\* The English table with a few texts.
EnFew == EnTextsOf(FewTexts)

EsTexts ==
    <<<<TextKey(1, 0), B>>,
      <<TextKey(1, 1), <<>>>>,
      <<TextKey(2, 0), A>>,
      <<Eli5Prefix \o <<"2", "-", "0">>, Old>>>>

LanguageArgs == {<<"en">>, <<"es">>, <<"en", "es">>}

\* os.cpu_count() of the host: 4 gives an executor of 8 threads.
CpuCounts == {4}

TypeArgs == {<<"easyread">>, <<"eli5">>, <<"easyread", "eli5">>}

\* The state when main() starts, for the tables with a few texts.
RegenStart ==
    /\ script = "regenerate_text"
    /\ pc = "main"
    /\ \E ls \in LanguageArgs, ts \in TypeArgs, s \in 1..MaxPage, e \in 1..MaxPage :
         \E key \in BOOLEAN, cpus \in CpuCounts :
           args = [languages |-> ls, text_types |-> ts, start_page |-> s, end_page |-> e,
                   api_key |-> key, cpu_count |-> cpus]
    \* The Spanish file may be missing or broken in the runs that read it alone.
    /\ \E es \in (IF args.languages = <<"es">> THEN {Missing, Malformed, File(EsTexts)}
                  ELSE {File(EsTexts)}) :
         fs = [n \in FileNames |-> IF n = EnFile THEN File(EnFew) ELSE es]
    /\ api_calls = <<>>
    /\ exit_code = -1
    /\ pair = 1
    /\ filtered_texts = <<>>
    /\ semaphore = max_concurrent_requests
    /\ in_flight = {}
    /\ waiters = <<>>
    /\ ready = <<>>
    /\ queued = <<>>
    /\ taken = {}
    /\ answered = NoResults
    /\ task_results = NoResults
    /\ run_results = <<>>
    /\ uncaught = "none"
    /\ last_merge = NoMerge
    /\ TimecodeIdle
    /\ TranslateIdle
    /\ prompts = <<>> /\ EasyIdle /\ GenIdle /\ RaceIdle

\* The arguments of the run that is observed under way: both English types
\* of page 1, from the table with NumTexts texts.
BusyArgs ==
    [languages |-> <<"en">>, text_types |-> <<"easyread", "eli5">>, start_page |-> 1,
     end_page |-> 1, api_key |-> TRUE, cpu_count |-> 4]

\* What that run recorded for its first pair, every request of which was
\* answered with a text.
FirstPair ==
    LET filtered == filter_texts_by_page_range_and_type(EnTexts, 1, 1, "easyread")
        results == [k \in DictKeys(filtered) |->
                       IF IsBlank(Get(filtered, k)) THEN <<>> ELSE TaskText("text")]
        counted == ProcessResults(filtered, results,
                       [successes |-> 0, failures |-> 0, generated_texts |-> <<>>])
    IN  [language |-> "en", text_type |-> "easyread",
         successes |-> counted.successes, failures |-> counted.failures,
         filtered_texts |-> filtered, generated_texts |-> counted.generated_texts]

\* That run during the first pass of the event loop over the tasks of its
\* second pair.  The first pair is saved.  The tasks of the blank text and
\* of the next nine texts have run their first step, so that one permit is
\* left; the first steps of the other tasks are still to run.  The threads
\* were quick: all requests but the last one were sent and answered, in the
\* order submitted, and their results wait for the loop; the last request
\* is still in the work queue.
RegenBusy ==
    LET first == FirstPair
        file == save_generated_texts(File(EnTexts), first.generated_texts)
        second == filter_texts_by_page_range_and_type(file.d, 1, 1, "eli5")
        KeyAt(i) == second[i][1]
        started == max_concurrent_requests
        done == [i \in 1..(started - 2) |-> KeyAt(i + 1)]
    IN  /\ script = "regenerate_text"
        /\ pc = "gather"
        /\ args = BusyArgs
        /\ fs = [n \in FileNames |-> IF n = EnFile THEN file ELSE File(EsTexts)]
        /\ api_calls = [i \in 1..Len(first.generated_texts) |->
                           Call("en", first.generated_texts[i][1])]
                       \o [i \in 1..Len(done) |-> Call("en", done[i])]
        /\ exit_code = -1
        /\ pair = 2
        /\ filtered_texts = second
        /\ semaphore = max_concurrent_requests - (started - 1)
        /\ in_flight = {KeyAt(i) : i \in 2..started}
        /\ waiters = <<>>
        /\ ready = [i \in 1..(Len(second) - started) |->
                       Callback("start", KeyAt(started + i))]
                   \o [i \in 1..Len(done) |-> Callback("set", done[i])]
        /\ queued = <<KeyAt(started)>>
        /\ taken = {}
        /\ answered = [k \in SeqToSet(done) |-> TaskText("text")]
        /\ task_results = (KeyAt(1) :> <<>>)
        /\ run_results = <<first>>
        /\ uncaught = "none"
        /\ last_merge = [file |-> EnFile, before |-> File(EnTexts),
                         new |-> first.generated_texts]
        /\ TimecodeIdle
        /\ TranslateIdle
        /\ prompts = <<>> /\ EasyIdle /\ GenIdle /\ RaceIdle

InitRegen == RegenStart \/ RegenBusy

SpecRegen == InitRegen /\ [][NextRegen]_vars

(***************************************************************************)
(* Claims about regenerate_text.py, checked under SpecRegen.               *)
(***************************************************************************)
\* How many times the request (language, key) was issued.
Issued(language, key) ==
    Cardinality({i \in 1..Len(api_calls) : api_calls[i] = Call(language, key)})

\* The requests of the current pair that were sent and whose answer has not
\* come back to the script.
InCall ==
    {k \in DictKeys(filtered_texts) :
        /\ Issued(Pairs[pair][1], k) > 0
        /\ k \notin DOMAIN answered \cup DOMAIN task_results}

C2_OneRequestPerSelectedKey ==
    \A i \in 1..Len(run_results) :
        \A key \in DictKeys(run_results[i].filtered_texts) :
            Issued(run_results[i].language, key) = 1

\* C2 amended: a selected key is requested exactly once when its text is not
\* blank and never when it is blank; no other key is ever requested, and no
\* key of the running pair is requested twice.
C2_OneRequestPerNonBlankKey ==
    /\ \A i \in 1..Len(run_results) :
         LET r == run_results[i]
         IN  \A key \in DictKeys(r.filtered_texts) :
                Issued(r.language, key) =
                    IF Len(Strip(Get(r.filtered_texts, key))) = 0 THEN 0 ELSE 1
    /\ \A c \in 1..Len(api_calls) :
         \/ \E i \in 1..Len(run_results) :
               /\ run_results[i].language = api_calls[c].scope
               /\ api_calls[c].key \in DictKeys(run_results[i].filtered_texts)
         \/ /\ pc = "gather"
            /\ Pairs[pair][1] = api_calls[c].scope
            /\ api_calls[c].key \in DictKeys(filtered_texts)
    /\ \A key \in DictKeys(filtered_texts) :
         pc = "gather" => Issued(Pairs[pair][1], key) <= 1

\* A pair of a run followed from its start has finished: it selected a
\* blank text (not requested) and other texts (each requested once).
C2_Witness ==
    /\ args # BusyArgs
    /\ \E i \in 1..Len(run_results) :
        LET r == run_results[i]
        IN  /\ \E key \in DictKeys(r.filtered_texts) :
                  Len(Strip(Get(r.filtered_texts, key))) = 0 /\ Issued(r.language, key) = 0
            /\ \E key \in DictKeys(r.filtered_texts) : Issued(r.language, key) = 1

\* Every text a finished pair generated is in the file of its language.
SavedInFile(r) ==
    LET f == fs[TextsFile(r.language)]
    IN  \A j \in 1..Len(r.generated_texts) :
           /\ f.st = "ok"
           /\ HasKey(f.d, r.generated_texts[j][1])
           /\ Get(f.d, r.generated_texts[j][1]) = r.generated_texts[j][2]

\* C3: texts.json is written only in the step that ends a pair, when every
\* task of the pair has returned, every text of the pair that is not blank
\* was requested and no request is queued, taken, in its call or answered
\* and not handled; after that step, and from then on, the file holds every
\* text the pair generated; and a request is sent only for a key of the
\* current pair, when every earlier pair has ended and has been saved.
C3_WriteAfterPairBeforeNext ==
    /\ [][fs' # fs =>
            /\ pc = "gather" /\ DOMAIN task_results = DictKeys(filtered_texts)
            /\ in_flight = {} /\ waiters = <<>> /\ queued = <<>> /\ taken = {}
            /\ DOMAIN answered = {} /\ ready = <<>>
            /\ \A k \in DictKeys(filtered_texts) :
                  ~IsBlank(Get(filtered_texts, k)) => Issued(Pairs[pair][1], k) = 1
            /\ Len(run_results') = Len(run_results) + 1
            /\ pair' = pair + 1]_vars
    /\ [](\A i \in 1..Len(run_results) : SavedInFile(run_results[i]))
    /\ [][api_calls' # api_calls =>
            /\ pc = "gather" /\ Len(run_results) = pair - 1
            /\ \E k \in DictKeys(filtered_texts) :
                  api_calls' = Append(api_calls, Call(Pairs[pair][1], k))]_vars

\* A run that started from the few texts has saved the texts of its first
\* pair, and a request of its second pair has been sent.
C3_Witness ==
    /\ args # BusyArgs
    /\ pc = "gather" /\ pair = 2
    /\ Len(run_results) = 1
    /\ Len(run_results[1].generated_texts) > 1
    /\ SavedInFile(run_results[1])
    /\ \E k \in DictKeys(filtered_texts) : Issued(Pairs[pair][1], k) = 1

\* C4: failures are counted and not retried: for every finished pair
\* successes + failures is the number of selected keys, the successes are
\* the keys with a generated text, and no request is issued twice in a run.
C4_CountedOnceNeverRetried ==
    /\ \A i \in 1..Len(run_results) :
         LET r == run_results[i]
         IN  /\ r.successes + r.failures = Len(r.filtered_texts)
             /\ r.successes = Len(r.generated_texts)
             /\ DictKeys(r.generated_texts) \subseteq DictKeys(r.filtered_texts)
    /\ \A i, j \in 1..Len(api_calls) : api_calls[i] = api_calls[j] => i = j

\* A finished pair with a failed request and successful ones.
C4_Witness ==
    \E i \in 1..Len(run_results) :
        /\ run_results[i].failures > 1
        /\ run_results[i].successes > 0
        /\ \E key \in DictKeys(run_results[i].filtered_texts) :
              /\ Len(Strip(Get(run_results[i].filtered_texts, key))) > 0
              /\ ~HasKey(run_results[i].generated_texts, key)

(***************************************************************************)
(* calculate_timecodes_prog.py                                             *)
(***************************************************************************)
InputJson == "translations_es.json"

DefaultOutput == "timecode_output.json"

CustomOutput == "out.json"

max_retries == 3

\* dict.get(key, default)
GetOr(d, k, default) == IF HasKey(d, k) THEN Get(d, k) ELSE default

\* valid_key_pattern = re.compile(r"^text-\d+-\d+$"); valid_key_pattern.match
ValidKey(data_id) == ReMatchTextKey(data_id) # <<>>

\* os.path.join(audio_folder, relative_audio_path)
AudioPath(audio_folder, relative_audio_path) ==
    [folder |-> audio_folder, rel |-> relative_audio_path]

\* The entry stored for an aligned text.
Entry(text, audio_path, result) ==
    [text |-> text, audio |-> audio_path, timecodes |-> result]

\* Mutant of save_results: nothing is written.
save_results_skipped == fs

\* save_results(): the output file holds the results in memory.
save_results == [fs EXCEPT ![output_file] = File(timecode_results)]

\* Mutant of WaitTime: the delay is computed from the attempt index as is.
WaitTimeFromZero(n) == n * 5

\* wait_time = (attempt + 1) * 5
WaitTime(n) == (n + 1) * 5

\* Lines 45-57: the arguments are parsed and the output file is named.
TcParseArgs ==
    /\ script = "calculate_timecodes" /\ pc = "parse_args"
    /\ output_file' = args.output
    /\ pc' = "load_existing"
    /\ UNCHANGED <<moreVars, script, args, fs, api_calls, exit_code, regenVars, timecode_results,
                   data, item, client, attempt, wait_time, conn_log, slept, signalled,
                   uncaught,
                   translateVars, last_merge>>

\* Lines 59-67: with --continue_from an existing output file is loaded; one
\* that cannot be parsed leaves the results empty.
TcLoadExisting ==
    /\ script = "calculate_timecodes" /\ pc = "load_existing"
    /\ timecode_results' =
          IF args.continue_from /\ fs[output_file].st # "missing"
          THEN (IF fs[output_file].st = "ok" THEN fs[output_file].d ELSE <<>>)
          ELSE timecode_results
    /\ pc' = "load_json"
    /\ UNCHANGED <<moreVars, script, args, fs, api_calls, exit_code, regenVars, output_file,
                   data, item, client, attempt, wait_time, conn_log, slept, signalled,
                   uncaught,
                   translateVars, last_merge>>

\* Lines 69-74: the input is opened and parsed outside any try.
TcLoadJson ==
    /\ script = "calculate_timecodes" /\ pc = "load_json"
    /\ LET f == fs[args.json]
       IN  IF f.st = "ok"
           THEN /\ data' = [texts |-> GetOr(f.d, "texts", <<>>),
                            audio_files |-> GetOr(f.d, "audioFiles", <<>>)]
                /\ pc' = "connect"
                /\ UNCHANGED <<exit_code, uncaught>>
           ELSE /\ uncaught' = IF f.st = "missing" THEN "FileNotFoundError"
                               ELSE "JSONDecodeError"
                /\ exit_code' = 1
                /\ pc' = "exit"
                /\ UNCHANGED data
    /\ UNCHANGED <<moreVars, script, args, fs, api_calls, regenVars, timecode_results, output_file,
                   item, client, attempt, wait_time, conn_log, slept, signalled,
                   translateVars, last_merge>>

\* Lines 80-100: one connection attempt.  A failed attempt that is not the
\* last sets the delay; the last one saves loaded results and exits with 1.
TcConnect ==
    /\ script = "calculate_timecodes" /\ pc = "connect"
    /\ attempt < max_retries
    /\ \E connected \in BOOLEAN :
         /\ conn_log' = Append(conn_log, connected)
         /\ IF connected
            THEN /\ client' = "connected"
                 /\ pc' = "loop"
                 /\ UNCHANGED <<wait_time, fs, exit_code>>
            ELSE IF attempt < max_retries - 1
            THEN /\ wait_time' = WaitTime(attempt)
                 /\ pc' = "sleep"
                 /\ UNCHANGED <<client, fs, exit_code>>
            ELSE /\ fs' = IF /\ args.continue_from
                             /\ fs[output_file].st # "missing"
                             /\ Len(timecode_results) > 0
                          THEN save_results
                          ELSE fs
                 /\ exit_code' = 1
                 /\ pc' = "exit"
                 /\ UNCHANGED <<client, wait_time>>
    /\ UNCHANGED <<moreVars, script, args, api_calls, regenVars, timecode_results, output_file,
                   data, item, attempt, slept, signalled, uncaught,
                   translateVars, last_merge>>

\* Line 91: time.sleep(wait_time) returns and the loop takes the next attempt.
TcSleep ==
    /\ script = "calculate_timecodes" /\ pc = "sleep"
    /\ slept' = Append(slept, wait_time)
    /\ attempt' = attempt + 1
    /\ pc' = "connect"
    /\ UNCHANGED <<moreVars, script, args, fs, api_calls, exit_code, regenVars, timecode_results,
                   output_file, data, item, client, wait_time, conn_log, signalled,
                   uncaught,
                   translateVars, last_merge>>

\* Mutant of Alignable: an entry already in the results is aligned again.
AlignableAgain(data_id) ==
    /\ ReMatchTextKey(data_id) # <<>>
    /\ HasKey(data.audio_files, data_id)
    /\ Get(data.audio_files, data_id) # ""
    /\ [folder |-> args.audio_folder, rel |-> Get(data.audio_files, data_id)]
          \in args.audio_on_disk

\* Whether the loop body reaches the alignment call for the entry.
Alignable(data_id) ==
    /\ ~HasKey(timecode_results, data_id)
    /\ ValidKey(data_id)
    /\ HasKey(data.audio_files, data_id)
    /\ Get(data.audio_files, data_id) # ""
    /\ AudioPath(args.audio_folder, Get(data.audio_files, data_id)) \in args.audio_on_disk

\* Mutant of AfterAlignment: a failed alignment leaves the loop.
AfterAlignmentBreak(ok) == IF ok THEN item + 1 ELSE Len(data.texts) + 1

\* Where the loop goes after the alignment call: to the next entry, whether
\* the call returned (line 151) or raised (except ... continue, line 155).
AfterAlignment(ok) == item + 1

\* Mutant of SaveAfterItem: the result is kept in memory only.
SaveAfterItemDeferred(stored) == fs

\* Line 151: save_results() right after the result is stored.
SaveAfterItem(stored) == [fs EXCEPT ![output_file] = File(stored)]

\* Lines 111-134: one pass of the loop body up to the alignment call.  An
\* entry already processed, one whose key does not match, and one without an
\* audio file are skipped; for the others client.predict is called and the
\* script waits for its answer.
TcItem ==
    /\ script = "calculate_timecodes" /\ pc = "loop"
    /\ item <= Len(data.texts)
    /\ LET data_id == data.texts[item][1]
       IN  IF Alignable(data_id)
           THEN /\ api_calls' = Append(api_calls, Call("align", data_id))
                /\ pc' = "predict"
                /\ UNCHANGED item
           ELSE /\ item' = item + 1
                /\ UNCHANGED <<api_calls, pc>>
    /\ UNCHANGED <<moreVars, script, args, fs, exit_code, regenVars, timecode_results,
                   output_file, data, client,
                   attempt, wait_time, conn_log, slept, signalled, uncaught,
                   translateVars, last_merge>>

\* Lines 134-155: client.predict returns or raises.  The result is stored
\* and saved, or the error is printed; the loop goes on with the next entry.
TcPredict ==
    /\ script = "calculate_timecodes" /\ pc = "predict"
    /\ LET data_id == data.texts[item][1]
           text == data.texts[item][2]
       IN  \E ok \in BOOLEAN :
             /\ item' = AfterAlignment(ok)
             /\ IF ok
                THEN LET audio_path == AudioPath(args.audio_folder,
                                                 Get(data.audio_files, data_id))
                         stored == Put(timecode_results, data_id,
                                       Entry(text, audio_path, "aligned"))
                     IN  /\ timecode_results' = stored
                         /\ fs' = SaveAfterItem(stored)
                ELSE UNCHANGED <<timecode_results, fs>>
    /\ pc' = "loop"
    /\ UNCHANGED <<moreVars, script, args, api_calls, exit_code, regenVars, output_file, data,
                   client, attempt, wait_time, conn_log, slept, signalled, uncaught,
                   translateVars, last_merge>>

\* Line 157: the loop is over and the script ends.
TcDone ==
    /\ script = "calculate_timecodes" /\ pc = "loop"
    /\ item > Len(data.texts)
    /\ pc' = "exit"
    /\ exit_code' = 0
    /\ UNCHANGED <<moreVars, script, args, fs, api_calls, regenVars, timecodeVars, uncaught,
                   translateVars, last_merge>>

\* signal_handler: SIGINT or SIGTERM while the script runs.
TcSignal ==
    /\ script = "calculate_timecodes" /\ pc # "exit"
    /\ fs' = save_results
    /\ signalled' = TRUE
    /\ exit_code' = 0
    /\ pc' = "exit"
    /\ UNCHANGED <<moreVars, script, args, api_calls, regenVars, timecode_results, output_file,
                   data, item, client, attempt, wait_time, conn_log, slept, uncaught,
                   translateVars, last_merge>>

NextTimecode == TcParseArgs \/ TcLoadExisting \/ TcLoadJson \/ TcConnect \/ TcSleep
                \/ TcItem \/ TcPredict \/ TcDone \/ TcSignal

(***************************************************************************)
(* The files a run of calculate_timecodes_prog.py starts from.             *)
(***************************************************************************)
TcTexts ==
    <<<<TextKey(1, 0), A>>,
      <<EasyreadPrefix \o TextKey(1, 0), A>>,
      <<TextKey(1, 1), A>>,
      <<TextKey(2, 0), A>>,
      <<TextKey(2, 1), A>>,
      <<TextKey(3, 0), A>>,
      <<TextKey(3, 1), A>>>>

\* text-2-0 has no audio entry, text-2-1 an empty one, and the file of
\* text-3-0 is not on disk.
TcAudioFiles ==
    <<<<TextKey(1, 0), "audio/1-0.mp3">>,
      <<EasyreadPrefix \o TextKey(1, 0), "audio/e-1-0.mp3">>,
      <<TextKey(1, 1), "audio/1-1.mp3">>,
      <<TextKey(2, 1), "">>,
      <<TextKey(3, 0), "audio/3-0.mp3">>,
      <<TextKey(3, 1), "audio/3-1.mp3">>>>

AudioOnDisk == {AudioPath("..", p) : p \in {"audio/1-0.mp3", "audio/e-1-0.mp3",
                                            "audio/1-1.mp3", "audio/3-1.mp3"}}

\* The output of an earlier run: text-1-0 is aligned.
PrevResults ==
    <<<<TextKey(1, 0), Entry(Old, AudioPath("..", "audio/1-0.mp3"), "aligned before")>>>>

TcInputs == {Missing, Malformed,
             File(<<<<"texts", TcTexts>>, <<"audioFiles", TcAudioFiles>>>>),
             File(<<<<"texts", TcTexts>>>>)}

\* The state of regenerate_text.py in a run of another script.
RegenIdle ==
    /\ pair = 1 /\ filtered_texts = <<>> /\ semaphore = max_concurrent_requests
    /\ in_flight = {} /\ waiters = <<>> /\ task_results = NoResults
    /\ ready = <<>> /\ queued = <<>> /\ taken = {} /\ answered = NoResults
    /\ run_results = <<>>

\* The state once the signal handlers are installed (lines 42-43).
InitTimecode ==
    /\ script = "calculate_timecodes"
    /\ pc = "parse_args"
    /\ \E out \in {DefaultOutput, CustomOutput}, cont \in BOOLEAN :
         args = [json |-> InputJson, audio_folder |-> "..", output |-> out,
                 continue_from |-> cont, audio_on_disk |-> AudioOnDisk]
    /\ \E input \in TcInputs, prev \in {Missing, Malformed, File(PrevResults)},
          other \in {Missing, File(PrevResults)} :
         fs = [n \in {InputJson, DefaultOutput, CustomOutput} |->
                 IF n = InputJson THEN input
                 ELSE IF n = args.output THEN prev
                 ELSE IF args.output = CustomOutput THEN other
                 ELSE Missing]
    /\ api_calls = <<>>
    /\ exit_code = -1
    /\ uncaught = "none"
    /\ last_merge = NoMerge
    /\ RegenIdle
    /\ TimecodeIdle
    /\ TranslateIdle
    /\ prompts = <<>> /\ EasyIdle /\ GenIdle /\ RaceIdle

SpecTimecode == InitTimecode /\ [][NextTimecode]_vars

(***************************************************************************)
(* old/assets/utils/calculate_image_timecodes.py: the earlier script, for  *)
(* the img- entries.  It installs no signal handler, connects once, keeps  *)
(* the results in memory and writes timecode_output.json after the loop.   *)
(***************************************************************************)
ImgPrefix == <<"i", "m", "g", "-">>

\* valid_key_pattern = re.compile(r"^img-\d+-\d+$"); valid_key_pattern.match
ValidImageKey(data_id) == ReMatchKey(ImgPrefix, data_id) # <<>>

\* The entry stored for an aligned image text (lines 80-85).
ImageEntry(data_id, text, audio_path, result) ==
    [text |-> text, audio |-> audio_path,
     isImage |-> StartsWith(data_id, ImgPrefix), timecodes |-> result]

\* Lines 27-35: the input is opened and parsed outside any try.
ItcLoadJson ==
    /\ script = "calculate_image_timecodes" /\ pc = "load_json"
    /\ LET f == fs[args.json]
       IN  IF f.st = "ok"
           THEN /\ data' = [texts |-> GetOr(f.d, "texts", <<>>),
                            audio_files |-> GetOr(f.d, "audioFiles", <<>>)]
                /\ pc' = "connect"
                /\ UNCHANGED <<exit_code, uncaught>>
           ELSE /\ uncaught' = IF f.st = "missing" THEN "FileNotFoundError"
                               ELSE "JSONDecodeError"
                /\ exit_code' = 1
                /\ pc' = "exit"
                /\ UNCHANGED data
    /\ UNCHANGED <<moreVars, script, args, fs, api_calls, regenVars, timecode_results, output_file,
                   item, client, attempt, wait_time, conn_log, slept, signalled,
                   translateVars, last_merge>>

\* Line 38: the client is made, outside any try: a failed connection ends
\* the script with its exception.
ItcConnect ==
    /\ script = "calculate_image_timecodes" /\ pc = "connect"
    /\ \E connected \in BOOLEAN :
         IF connected
         THEN /\ client' = "connected"
              /\ pc' = "loop"
              /\ UNCHANGED <<exit_code, uncaught>>
         ELSE /\ uncaught' = "ConnectionError"
              /\ exit_code' = 1
              /\ pc' = "exit"
              /\ UNCHANGED client
    /\ UNCHANGED <<moreVars, script, args, fs, api_calls, regenVars, timecode_results, output_file,
                   data, item, attempt, wait_time, conn_log, slept, signalled,
                   translateVars, last_merge>>

\* Whether the loop body reaches the alignment call for the entry
\* (lines 49-64).
ImageAlignable(data_id) ==
    /\ ValidImageKey(data_id)
    /\ HasKey(data.audio_files, data_id)
    /\ Get(data.audio_files, data_id) # ""
    /\ AudioPath(args.audio_folder, Get(data.audio_files, data_id)) \in args.audio_on_disk

\* Lines 48-69: one pass of the loop body up to the alignment call.
ItcItem ==
    /\ script = "calculate_image_timecodes" /\ pc = "loop"
    /\ item <= Len(data.texts)
    /\ LET data_id == data.texts[item][1]
       IN  IF ImageAlignable(data_id)
           THEN /\ api_calls' = Append(api_calls, Call("align", data_id))
                /\ pc' = "predict"
                /\ UNCHANGED item
           ELSE /\ item' = item + 1
                /\ UNCHANGED <<api_calls, pc>>
    /\ UNCHANGED <<moreVars, script, args, fs, exit_code, regenVars, timecode_results,
                   output_file, data, client,
                   attempt, wait_time, conn_log, slept, signalled, uncaught,
                   translateVars, last_merge>>

\* Lines 69-85: client.predict returns or raises.  The result is stored in
\* memory, or the error is printed; the loop goes on with the next entry.
ItcPredict ==
    /\ script = "calculate_image_timecodes" /\ pc = "predict"
    /\ LET data_id == data.texts[item][1]
           text == data.texts[item][2]
           audio_path == AudioPath(args.audio_folder, Get(data.audio_files, data_id))
       IN  \E ok \in BOOLEAN :
             timecode_results' =
                IF ok THEN Put(timecode_results, data_id,
                               ImageEntry(data_id, text, audio_path, "aligned"))
                ELSE timecode_results
    /\ item' = item + 1
    /\ pc' = "loop"
    /\ UNCHANGED <<moreVars, script, args, fs, api_calls, exit_code, regenVars, output_file,
                   data, client, attempt, wait_time, conn_log, slept, signalled, uncaught,
                   translateVars, last_merge>>

\* Lines 87-92: after the loop the results are written to
\* timecode_output.json, also when there are none.
ItcWrite ==
    /\ script = "calculate_image_timecodes" /\ pc = "loop"
    /\ item > Len(data.texts)
    /\ fs' = [fs EXCEPT ![DefaultOutput] = File(timecode_results)]
    /\ pc' = "exit"
    /\ exit_code' = 0
    /\ UNCHANGED <<moreVars, script, args, api_calls, regenVars, timecodeVars, uncaught,
                   translateVars, last_merge>>

NextImageTimecode == ItcLoadJson \/ ItcConnect \/ ItcItem \/ ItcPredict \/ ItcWrite

ImgKeyOf(p, i) == ImgPrefix \o Str(p) \o <<"-">> \o Str(i)

\* An input with image texts: img-1-1 has no audio entry, img-2-0 an empty
\* one, and the file of img-2-1 is not on disk.
ItcTexts ==
    <<<<ImgKeyOf(1, 0), A>>,
      <<TextKey(1, 0), A>>,
      <<ImgKeyOf(1, 1), A>>,
      <<ImgKeyOf(2, 0), A>>,
      <<ImgKeyOf(2, 1), A>>,
      <<ImgKeyOf(3, 0), A>>>>

ItcAudioFiles ==
    <<<<ImgKeyOf(1, 0), "audio/1-0.mp3">>,
      <<TextKey(1, 0), "audio/1-1.mp3">>,
      <<ImgKeyOf(2, 0), "">>,
      <<ImgKeyOf(2, 1), "audio/3-0.mp3">>,
      <<ImgKeyOf(3, 0), "audio/3-1.mp3">>>>

ItcInputs == TcInputs \cup {File(<<<<"texts", ItcTexts>>, <<"audioFiles", ItcAudioFiles>>>>)}

InitImageTimecode ==
    /\ script = "calculate_image_timecodes"
    /\ pc = "load_json"
    /\ args = [json |-> InputJson, audio_folder |-> "..", audio_on_disk |-> AudioOnDisk]
    /\ \E input \in ItcInputs, prev \in {Missing, File(PrevResults)} :
         fs = [n \in {InputJson, DefaultOutput, CustomOutput} |->
                 IF n = InputJson THEN input
                 ELSE IF n = DefaultOutput THEN prev
                 ELSE Missing]
    /\ api_calls = <<>>
    /\ exit_code = -1
    /\ uncaught = "none"
    /\ last_merge = NoMerge
    /\ RegenIdle
    /\ TimecodeIdle
    /\ TranslateIdle
    /\ prompts = <<>> /\ EasyIdle /\ GenIdle /\ RaceIdle

SpecImageTimecode == InitImageTimecode /\ [][NextImageTimecode]_vars

(***************************************************************************)
(* translate_gpt5.py and translate_page_range.py                           *)
(***************************************************************************)
\* load_json_file: the data, or None (here <<>> with ok = FALSE) for a
\* missing file and for invalid JSON.
load_json_file(file) == [ok |-> file.st = "ok", d |-> file.d]

\* save_json_file: the file written, its keys sorted.
save_json_file(d) == File(SortKeys(d))

\* page_end = args.page_end if args.page_end else args.page_start; an absent
\* page_end (None) is -1 here.
PageEnd == IF args.page_end = -1 \/ args.page_end = 0 THEN args.page_start
           ELSE args.page_end

\* Mutant of SortByPageAndNumber: the keys stay in the order of the file.
SortSkipped(ks) == ks

\* The keys as matching_keys.sort(key=lambda x: (x[0], x[1])) leaves them: by
\* page, then by text number; the sort is stable.
RECURSIVE SortByPageAndNumber(_)
SortByPageAndNumber(ks) ==
    IF Len(ks) = 0 THEN ks
    ELSE LET Before(a, b) == a[1] < b[1] \/ (a[1] = b[1] /\ a[2] < b[2])
             m == CHOOSE i \in 1..Len(ks) :
                     /\ \A j \in 1..Len(ks) : ~Before(ks[j], ks[i])
                     /\ \A j \in 1..(i - 1) : Before(ks[i], ks[j]) \/ Before(ks[j], ks[i])
         IN  <<ks[m]>> \o SortByPageAndNumber(
                             [j \in 1..(Len(ks) - 1) |-> IF j < m THEN ks[j] ELSE ks[j + 1]])

\* The (page_num, text_num, key) triples of the keys that match and whose
\* page is in range(page_start, page_end + 1), in the order of the dict.
RECURSIVE MatchingKeys(_, _, _)
MatchingKeys(spanish_data, page_start, page_end) ==
    IF Len(spanish_data) = 0 THEN <<>>
    ELSE LET key == spanish_data[1][1]
             match == ReMatchTextKey(key)
             rest == MatchingKeys(Tail(spanish_data), page_start, page_end)
         IN  IF match # <<>> /\ page_start <= DigitsVal(match[1])
                /\ DigitsVal(match[1]) <= page_end
             THEN <<<<DigitsVal(match[1]), DigitsVal(match[2]), key>>>> \o rest
             ELSE rest

\* extract_page_range_texts of translate_gpt5.py.
extract_page_range_texts(spanish_data, page_start, page_end) ==
    LET sorted == SortByPageAndNumber(MatchingKeys(spanish_data, page_start, page_end))
    IN  [i \in 1..Len(sorted) |-> <<sorted[i][3], Get(spanish_data, sorted[i][3])>>]

\* The alternatives of the pattern of translate_page_range.py,
\* rf'^text-({page_start}|{"|".join(map(str, range(page_start, page_end + 1)))})-\d+$':
\* page_start, then the pages of the range, or the empty string when the
\* range is empty.
PagePatternAlternatives(page_start, page_end) ==
    {Str(page_start)}
    \cup (IF page_start <= page_end THEN {Str(n) : n \in page_start..page_end}
          ELSE {<<>>})

\* pattern.match(key) of translate_page_range.py.
PagePatternMatches(key, page_start, page_end) ==
    LET body == IF Len(key) > 0 /\ key[Len(key)] = "\n" THEN Take(key, Len(key) - 1) ELSE key
    IN  \E alt \in PagePatternAlternatives(page_start, page_end) :
           LET head == TextPrefix \o alt \o <<"-">>
           IN  /\ StartsWith(body, head)
               /\ Len(body) > Len(head)
               /\ AllDigits(Drop(body, Len(head)))

\* extract_page_range_texts of translate_page_range.py.
RECURSIVE extract_page_range_texts_pr(_, _, _)
extract_page_range_texts_pr(spanish_data, page_start, page_end) ==
    IF Len(spanish_data) = 0 THEN <<>>
    ELSE LET rest == extract_page_range_texts_pr(Tail(spanish_data), page_start, page_end)
         IN  IF PagePatternMatches(spanish_data[1][1], page_start, page_end)
             THEN <<spanish_data[1]>> \o rest
             ELSE rest

\* The existing translations loaded as context (translate_gpt5.py, lines
\* 210-226): the first context_size text- keys, in sorted order, that the
\* Spanish table has too.
RECURSIVE InitialContext(_, _, _)
InitialContext(keys, spanish_data, left) ==
    IF Len(keys) = 0 THEN <<>>
    ELSE IF StartsWith(keys[1][1], TextPrefix) /\ left > 0 /\ HasKey(spanish_data, keys[1][1])
    THEN <<keys[1][1]>> \o InitialContext(Tail(keys), spanish_data, left - 1)
    ELSE InitialContext(Tail(keys), spanish_data, left)

\* The translations dict of simple_translate (lines 50-116), in its order.
SimpleTranslations ==
  <<
    <<<<"M", "a", "n", "u", "a", "l", " ", "d", "e", " ", "A", "u", "t", "o",
        "c", "u", "i", "d", "a", "d", "o">>,
      <<"S", "e", "l", "f", "-", "C", "a", "r", "e", " ", "M", "a", "n", "u",
        "a", "l">>>>,
    <<<<"M", "a", "n", "u", "a", "l", " ", "d", "e", " ", "a", "u", "t", "o",
        "c", "u", "i", "d", "a", "d", "o">>,
      <<"S", "e", "l", "f", "-", "c", "a", "r", "e", " ", "m", "a", "n", "u",
        "a", "l">>>>,
    <<<<"M", "a", "n", "u", "a", "l", " ", "d", "e", " ", "a", "u", "t", "o",
        "c", "u", "i", "d", "o">>,
      <<"S", "e", "l", "f", "-", "c", "a", "r", "e", " ", "m", "a", "n", "u",
        "a", "l">>>>,
    <<<<"A", "u", "t", "o", "c", "u", "i", "d", "a", "d", "o">>,
      <<"S", "e", "l", "f", "-", "c", "a", "r", "e">>>>,
    <<<<"a", "u", "t", "o", "c", "u", "i", "d", "a", "d", "o">>,
      <<"s", "e", "l", "f", "-", "c", "a", "r", "e">>>>,
    <<<<"A", "u", "t", "o", "c", "u", "i", "d", "a", "d", "o", " ", "f", "í",
        "s", "i", "c", "o">>,
      <<"P", "h", "y", "s", "i", "c", "a", "l", " ", "s", "e", "l", "f", "-",
        "c", "a", "r", "e">>>>,
    <<<<"A", "u", "t", "o", "c", "u", "i", "d", "a", "d", "o", " ", "e", "m",
        "o", "c", "i", "o", "n", "a", "l">>,
      <<"E", "m", "o", "t", "i", "o", "n", "a", "l", " ", "s", "e", "l", "f",
        "-", "c", "a", "r", "e">>>>,
    <<<<"A", "u", "t", "o", "c", "u", "i", "d", "a", "d", "o", " ", "c", "o",
        "g", "n", "i", "t", "i", "v", "o">>,
      <<"C", "o", "g", "n", "i", "t", "i", "v", "e", " ", "s", "e", "l", "f",
        "-", "c", "a", "r", "e">>>>,
    <<<<"A", "u", "t", "o", "c", "u", "i", "d", "a", "d", "o", " ", "s", "o",
        "c", "i", "a", "l">>,
      <<"S", "o", "c", "i", "a", "l", " ", "s", "e", "l", "f", "-", "c", "a",
        "r", "e">>>>,
    <<<<"A", "u", "t", "o", "c", "u", "i", "d", "a", "d", "o", " ", "e", "s",
        "p", "i", "r", "i", "t", "u", "a", "l">>,
      <<"S", "p", "i", "r", "i", "t", "u", "a", "l", " ", "s", "e", "l", "f",
        "-", "c", "a", "r", "e">>>>,
    <<<<"C", "o", "n", "t", "e", "n", "i", "d", "o">>,
      <<"C", "o", "n", "t", "e", "n", "t", "s">>>>,
    <<<<"I", "n", "t", "r", "o", "d", "u", "c", "c", "i", "ó", "n">>,
      <<"I", "n", "t", "r", "o", "d", "u", "c", "t", "i", "o", "n">>>>,
    <<<<"I", "N", "T", "R", "O", "D", "U", "C", "C", "I", "Ó", "N">>,
      <<"I", "N", "T", "R", "O", "D", "U", "C", "T", "I", "O", "N">>>>,
    <<<<"¿", "Q", "u", "é", " ", "e", "s", " ", "e", "l", " ", "a", "u", "t",
        "o", "c", "u", "i", "d", "a", "d", "o", "?">>,
      <<"W", "h", "a", "t", " ", "i", "s", " ", "s", "e", "l", "f", "-", "c",
        "a", "r", "e", "?">>>>,
    <<<<"P", "r", "i", "n", "c", "i", "p", "i", "o", "s", " ", "d", "e", "l",
        " ", "a", "u", "t", "o", "c", "u", "i", "d", "a", "d", "o">>,
      <<"P", "r", "i", "n", "c", "i", "p", "l", "e", "s", " ", "o", "f", " ",
        "s", "e", "l", "f", "-", "c", "a", "r", "e">>>>,
    <<<<"I", "m", "p", "o", "r", "t", "a", "n", "c", "i", "a", " ", "y", " ",
        "b", "e", "n", "e", "f", "i", "c", "i", "o", "s", " ", "d", "e", "l",
        " ", "a", "u", "t", "o", "c", "u", "i", "d", "a", "d", "o">>,
      <<"I", "m", "p", "o", "r", "t", "a", "n", "c", "e", " ", "a", "n", "d",
        " ", "b", "e", "n", "e", "f", "i", "t", "s", " ", "o", "f", " ", "s",
        "e", "l", "f", "-", "c", "a", "r", "e">>>>,
    <<<<"T", "i", "p", "o", "s", " ", "d", "e", " ", "a", "u", "t", "o", "c",
        "u", "i", "d", "a", "d", "o">>,
      <<"T", "y", "p", "e", "s", " ", "o", "f", " ", "s", "e", "l", "f", "-",
        "c", "a", "r", "e">>>>,
    <<<<"E", "j", "e", "r", "c", "i", "c", "i", "o", "s", " ", "p", "r", "á",
        "c", "t", "i", "c", "o", "s">>,
      <<"P", "r", "a", "c", "t", "i", "c", "a", "l", " ", "e", "x", "e", "r",
        "c", "i", "s", "e", "s">>>>,
    <<<<"B", "i", "b", "l", "i", "o", "g", "r", "a", "f", "í", "a">>,
      <<"B", "i", "b", "l", "i", "o", "g", "r", "a", "p", "h", "y">>>>,
    <<<<"D", "o", "r", "m", "i", "r", " ", "y", " ", "d", "e", "s", "c", "a",
        "n", "s", "a", "r", " ", "l", "o", " ", "s", "u", "f", "i", "c", "i",
        "e", "n", "t", "e", ":">>,
      <<"G", "e", "t", " ", "e", "n", "o", "u", "g", "h", " ", "s", "l", "e",
        "e", "p", " ", "a", "n", "d", " ", "r", "e", "s", "t", ":">>>>,
    <<<<"A", "l", "g", "u", "n", "a", "s", " ", "r", "e", "c", "o", "m", "e",
        "n", "d", "a", "c", "i", "o", "n", "e", "s", " ", "p", "a", "r", "a",
        " ", "g", "a", "r", "a", "n", "t", "i", "z", "a", "r", " ", "u", "n",
        "a", " ", "r", "u", "t", "i", "n", "a", " ", "s", "a", "l", "u", "d",
        "a", "b", "l", "e", " ", "d", "e", "l", " ", "s", "u", "e", "ñ", "o",
        " ", "s", "o", "n", ":">>,
      <<"S", "o", "m", "e", " ", "r", "e", "c", "o", "m", "m", "e", "n", "d",
        "a", "t", "i", "o", "n", "s", " ", "t", "o", " ", "e", "n", "s", "u",
        "r", "e", " ", "a", " ", "h", "e", "a", "l", "t", "h", "y", " ", "s",
        "l", "e", "e", "p", " ", "r", "o", "u", "t", "i", "n", "e", " ", "a",
        "r", "e", ":">>>>,
    <<<<"C", "u", "i", "d", "a", "r", " ", "e", "l", " ", "e", "n", "t", "o",
        "r", "n", "o", ":">>,
      <<"T", "a", "k", "e", " ", "c", "a", "r", "e", " ", "o", "f", " ", "t",
        "h", "e", " ", "e", "n", "v", "i", "r", "o", "n", "m", "e", "n", "t",
        ":">>>>,
    <<<<"S", "e", "r", " ", "c", "o", "n", "s", "t", "a", "n", "t", "e", ":">>,
      <<"B", "e", " ", "c", "o", "n", "s", "i", "s", "t", "e", "n", "t", ":">>>>,
    <<<<"N", "o", " ", "c", "o", "n", "s", "u", "m", "a", "s", " ", "e", "s",
        "t", "i", "m", "u", "l", "a", "n", "t", "e", "s", " ", "d", "e", "s",
        "p", "u", "é", "s", " ", "d", "e", " ", "m", "e", "d", "i", "a", " ",
        "t", "a", "r", "d", "e", ":">>,
      <<"D", "o", "n", "'", "t", " ", "c", "o", "n", "s", "u", "m", "e", " ",
        "s", "t", "i", "m", "u", "l", "a", "n", "t", "s", " ", "a", "f", "t",
        "e", "r", " ", "m", "i", "d", "-", "a", "f", "t", "e", "r", "n", "o",
        "o", "n", ":">>>>,
    <<<<"E", "m", "o", "c", "i", "o", "n", "e", "s">>,
      <<"E", "m", "o", "t", "i", "o", "n", "s">>>>,
    <<<<"¿", "C", "ó", "m", "o", " ", "s", "e", " ", "e", "x", "p", "r", "e",
        "s", "a", "n", " ", "l", "a", "s", " ", "e", "m", "o", "c", "i", "o",
        "n", "e", "s", "?">>,
      <<"H", "o", "w", " ", "a", "r", "e", " ", "e", "m", "o", "t", "i", "o",
        "n", "s", " ", "e", "x", "p", "r", "e", "s", "s", "e", "d", "?">>>>,
    <<<<"E", "x", "p", "r", "e", "s", "a", "r", " ", "E", "m", "o", "c", "i",
        "o", "n", "e", "s">>,
      <<"E", "x", "p", "r", "e", "s", "s", "i", "n", "g", " ", "E", "m", "o",
        "t", "i", "o", "n", "s">>>>,
    <<<<"L", "a", "s", " ", "E", "m", "o", "c", "i", "o", "n", "e", "s">>,
      <<"T", "h", "e", " ", "E", "m", "o", "t", "i", "o", "n", "s">>>>,
    <<<<"C", "u", "i", "d", "a", "d", "o", " ", "d", "e", " ", "l", "a", " ",
        "h", "i", "g", "i", "e", "n", "e">>,
      <<"H", "y", "g", "i", "e", "n", "e", " ", "c", "a", "r", "e">>>>,
    <<<<"C", "u", "i", "d", "a", "d", "o", " ", "d", "e", " ", "l", "a", " ",
        "h", "i", "g", "i", "e", "n", "e", ":">>,
      <<"H", "y", "g", "i", "e", "n", "e", " ", "c", "a", "r", "e", ":">>>>,
    <<<<"A", "u", "t", "o", " ", "c", "u", "i", "d", "a", "d", "o", " ", "f",
        "í", "s", "i", "c", "o">>,
      <<"P", "h", "y", "s", "i", "c", "a", "l", " ", "s", "e", "l", "f", "-",
        "c", "a", "r", "e">>>>,
    <<<<"A", "u", "t", "o", " ", "C", "u", "i", "d", "a", "d", "o", " ", "F",
        "í", "s", "i", "c", "o">>,
      <<"P", "h", "y", "s", "i", "c", "a", "l", " ", "S", "e", "l", "f", "-",
        "C", "a", "r", "e">>>>,
    <<<<"e", "s", " ", "r", "e", "c", "o", "m", "e", "n", "d", "a", "b", "l",
        "e">>,
      <<"i", "t", " ", "i", "s", " ", "r", "e", "c", "o", "m", "m", "e", "n",
        "d", "e", "d">>>>,
    <<<<"S", "e", " ", "r", "e", "c", "o", "m", "i", "e", "n", "d", "a">>,
      <<"I", "t", " ", "i", "s", " ", "r", "e", "c", "o", "m", "m", "e", "n",
        "d", "e", "d">>>>,
    <<<<"P", "a", "r", "a">>,
      <<"F", "o", "r">>>>,
    <<<<"p", "o", "r">>,
      <<"b", "y">>>>,
    <<<<"d", "e">>,
      <<"o", "f">>>>,
    <<<<"l", "a">>,
      <<"t", "h", "e">>>>,
    <<<<"e", "l">>,
      <<"t", "h", "e">>>>,
    <<<<"u", "n", "a">>,
      <<"a">>>>,
    <<<<"u", "n">>,
      <<"a">>>>,
    <<<<"y">>,
      <<"a", "n", "d">>>>,
    <<<<"o">>,
      <<"o", "r">>>>,
    <<<<"e", "n">>,
      <<"i", "n">>>>,
    <<<<"c", "o", "n">>,
      <<"w", "i", "t", "h">>>>,
    <<<<"p", "a", "r", "a">>,
      <<"f", "o", "r">>>>,
    <<<<"q", "u", "e">>,
      <<"t", "h", "a", "t">>>>,
    <<<<"c", "o", "m", "o">>,
      <<"a", "s">>>>,
    <<<<"s", "o", "n">>,
      <<"a", "r", "e">>>>,
    <<<<"e", "s">>,
      <<"i", "s">>>>,
    <<<<"d", "e", "l">>,
      <<"o", "f", " ", "t", "h", "e">>>>,
    <<<<"l", "a", "s">>,
      <<"t", "h", "e">>>>,
    <<<<"l", "o", "s">>,
      <<"t", "h", "e">>>>
  >>

\* str.replace(old, new): every occurrence of old, from the left, without
\* overlap.
RECURSIVE Replace(_, _, _)
Replace(s, old, new) ==
    IF Len(s) = 0 \/ Len(old) = 0 THEN s
    ELSE IF StartsWith(s, old) THEN new \o Replace(Drop(s, Len(old)), old, new)
    ELSE <<s[1]>> \o Replace(Tail(s), old, new)

\* One pass of the loop of lines 122-125: the term is replaced in the text
\* when it is longer than 3 characters.
ReplaceTerm(translated, term) ==
    IF Len(term[1]) > 3 THEN Replace(translated, term[1], term[2]) ELSE translated

\* Lines 122-125 from the term at index i of the dict on, in its order.
RECURSIVE ReplaceTerms(_, _)
ReplaceTerms(translated, i) ==
    IF i > Len(SimpleTranslations) THEN translated
    ELSE LET replaced == ReplaceTerm(translated, SimpleTranslations[i])
         IN  IF Len(replaced) >= 0 THEN ReplaceTerms(replaced, i + 1) ELSE replaced

\* simple_translate: an exact match first, then the replacement of terms.
simple_translate(spanish_text) ==
    IF HasKey(SimpleTranslations, spanish_text) THEN Get(SimpleTranslations, spanish_text)
    ELSE ReplaceTerms(spanish_text, 1)

\* The quotes a model may put around its answer are removed.
Unquote(t) ==
    LET Q(x, q) == IF Len(x) > 0 /\ x[1] = q /\ x[Len(x)] = q
                   THEN SubSeq(x, 2, Len(x) - 1) ELSE x
    IN  Q(Q(t, "\""), "'")

\* f"[TRANSLATION ERROR: {spanish_text}]"
TranslationError(spanish_text) ==
    <<"[", "T", "R", "A", "N", "S", "L", "A", "T", "I", "O", "N", " ",
      "E", "R", "R", "O", "R", ":", " ">> \o spanish_text \o <<"]">>

\* f"[DRY RUN] Would translate: {spanish_text}"
DryRunText(spanish_text) ==
    <<"[", "D", "R", "Y", " ", "R", "U", "N", "]", " ", "W", "o", "u", "l", "d", " ",
      "t", "r", "a", "n", "s", "l", "a", "t", "e", ":", " ">> \o spanish_text

\* The answer of the chat API for an outcome that is not an error.
ApiResponse(outcome) == IF outcome = "text" THEN NewText ELSE <<" ">>

\* Mutant of merge_with_existing_english: the new translations replace the table.
merge_new_only(new_translations, english_file) == new_translations

\* merge_with_existing_english
merge_with_existing_english(new_translations, english_file) ==
    LET loaded == load_json_file(english_file)
        existing_english == IF loaded.ok THEN loaded.d ELSE <<>>
    IN  DictUpdate(existing_english, new_translations)

\* seq[start:] of Python for a list: a negative start counts from the end,
\* and -0 is 0.
SliceFrom(seq, start) ==
    LET from == IF start < 0 THEN (IF Len(seq) + start < 0 THEN 0 ELSE Len(seq) + start)
                ELSE IF start > Len(seq) THEN Len(seq) ELSE start
    IN  SubSeq(seq, from + 1, Len(seq))

\* translator.max_context_pairs = args.context_size (line 183)
max_context_pairs == args.context_size

\* self.translation_context[-self.max_context_pairs:], the pairs that
\* translate_with_context puts in the prompt.
ContextWindow(context, n) == SliceFrom(context, 0 - n)

\* Mutant of dry_run: the flag is ignored.
dry_run_ignored == FALSE

\* The --dry-run flag, as main and the translation loop test it.
dry_run == args.dry_run

IsTranslate == script \in {"translate_gpt5", "translate_page_range"}

\* GPT5Translator(api_key=args.api_key) of translate_gpt5.py (lines 181-188):
\* OpenAI() raises without --api-key and without OPENAI_API_KEY, and main()
\* returns 1.  translate_page_range.py has no client.
ClientFails == script = "translate_gpt5" /\ ~args.api_key

\* main() up to the translation loop: the Spanish file is loaded and the
\* texts of the page range extracted; the script returns 1 when the file is
\* missing, when the client cannot be made, when the file is invalid and
\* when no text is found.
TrMain ==
    /\ IsTranslate /\ pc = "main"
    /\ LET loaded == load_json_file(fs[EsFile])
           texts == IF script = "translate_gpt5"
                    THEN extract_page_range_texts(loaded.d, args.page_start, PageEnd)
                    ELSE extract_page_range_texts_pr(loaded.d, args.page_start, PageEnd)
           existing_english == load_json_file(fs[EnFile])
       IN  IF fs[EsFile].st = "missing" \/ ClientFails \/ ~loaded.ok
           THEN /\ pc' = "exit" /\ exit_code' = 1
                /\ UNCHANGED <<page_texts, translation_context>>
           ELSE IF Len(texts) = 0
           THEN /\ pc' = "exit" /\ exit_code' = 1
                /\ page_texts' = texts
                /\ UNCHANGED translation_context
           ELSE /\ pc' = "translate" /\ exit_code' = exit_code
                /\ page_texts' = texts
                /\ translation_context' =
                      IF script = "translate_gpt5" /\ existing_english.ok
                         /\ Len(existing_english.d) > 0 /\ ~dry_run
                      THEN InitialContext(SortKeys(existing_english.d), loaded.d,
                                          args.context_size)
                      ELSE translation_context
    /\ UNCHANGED <<prompts, easyVars, genVars, raceVars, script, args, fs, api_calls, regenVars, timecodeVars, uncaught,
                   english_translations, next_text, last_merge>>

\* One pass of the loop of generate_sequential_translations: the request of
\* translate_with_context, whose failure gives the placeholder.
TrTranslateGpt5 ==
    /\ script = "translate_gpt5" /\ pc = "translate"
    /\ next_text <= Len(page_texts)
    /\ LET text_id == page_texts[next_text][1]
           spanish_text == page_texts[next_text][2]
       IN  IF dry_run
           THEN /\ english_translations' =
                      Put(english_translations, text_id, DryRunText(spanish_text))
                /\ UNCHANGED <<api_calls, translation_context, prompts>>
           ELSE /\ api_calls' = Append(api_calls, Call("translate", text_id))
                /\ prompts' = Append(prompts,
                      [text_id |-> text_id,
                       included |-> ContextWindow(translation_context,
                                                  max_context_pairs),
                       earlier |-> translation_context])
                /\ \E outcome \in ApiOutcomes(spanish_text) :
                     IF outcome = "error"
                     THEN /\ english_translations' =
                                Put(english_translations, text_id,
                                    TranslationError(spanish_text))
                          /\ UNCHANGED translation_context
                     ELSE LET english == Unquote(Strip(ApiResponse(outcome)))
                          IN  /\ english_translations' =
                                    Put(english_translations, text_id, english)
                              /\ translation_context' = Append(translation_context, text_id)
    /\ next_text' = next_text + 1
    /\ UNCHANGED <<easyVars, genVars, raceVars, script, pc, args, fs, exit_code, regenVars, timecodeVars, uncaught,
                   page_texts, last_merge>>

\* One pass of the loop of generate_english_translations.
TrTranslateSimple ==
    /\ script = "translate_page_range" /\ pc = "translate"
    /\ next_text <= Len(page_texts)
    /\ english_translations' = Put(english_translations, page_texts[next_text][1],
                                   simple_translate(page_texts[next_text][2]))
    /\ next_text' = next_text + 1
    /\ UNCHANGED <<prompts, easyVars, genVars, raceVars, script, pc, args, fs, api_calls, exit_code, regenVars, timecodeVars,
                   uncaught, page_texts, translation_context, last_merge>>

\* main() after the loop: with --dry-run nothing is written; otherwise the
\* new translations are merged into the English table and the table saved.
TrSave ==
    /\ IsTranslate /\ pc = "translate"
    /\ next_text > Len(page_texts)
    /\ IF dry_run
       THEN UNCHANGED <<fs, last_merge>>
       ELSE /\ fs' = [fs EXCEPT ![EnFile] = save_json_file(
                         merge_with_existing_english(english_translations, fs[EnFile]))]
            /\ last_merge' = [file |-> EnFile, before |-> fs[EnFile],
                              new |-> english_translations]
    /\ pc' = "exit"
    /\ exit_code' = 0
    /\ UNCHANGED <<prompts, easyVars, genVars, raceVars, script, args, api_calls, regenVars, timecodeVars, uncaught,
                   translateVars>>

NextTranslate == TrMain \/ TrTranslateGpt5 \/ TrTranslateSimple \/ TrSave

(***************************************************************************)
(* The tables a translation run starts from.                               *)
(***************************************************************************)
Y == <<"y">>

\* Spanish: texts of pages 1 and 2 out of order, a page written with a
\* leading zero, and keys that are no text keys.
EsTable ==
    <<<<TextKey(2, 0), A>>,
      <<TextKey(1, 1), Y>>,
      <<TextKey(1, 0), B>>,
      <<TextPrefix \o <<"0", "1", "-", "5">>, A>>,
      <<EasyreadPrefix \o TextKey(1, 0), A>>,
      <<TextPrefix \o <<"1">>, A>>,
      <<ImgKey, A>>>>

EnTable ==
    <<<<TextKey(3, 0), Old>>,
      <<TextKey(1, 0), Old>>,
      <<ImgKey, Old>>>>

default_context_size == 10

\* The values of --context-size tried: none kept, fewer than the earlier
\* translations, and the default.
ContextSizes == {0, 1, 2, default_context_size}

InitTranslate ==
    /\ script \in {"translate_gpt5", "translate_page_range"}
    /\ pc = "main"
    /\ \E s \in 0..MaxPage, e \in -1..MaxPage, dry \in BOOLEAN, cs \in ContextSizes :
         \E key \in (IF script = "translate_gpt5" THEN BOOLEAN ELSE {FALSE}) :
           args = [page_start |-> s, page_end |-> e, dry_run |-> dry,
                   context_size |-> cs, api_key |-> key]
    /\ \E es \in {Missing, Malformed, Unparsable(EsTable), File(EsTable)},
          en \in {Missing, Malformed, File(EnTable)} :
         fs = [n \in FileNames |-> IF n = EsFile THEN es ELSE en]
    /\ api_calls = <<>>
    /\ exit_code = -1
    /\ uncaught = "none"
    /\ last_merge = NoMerge
    /\ RegenIdle
    /\ TimecodeIdle
    /\ TranslateIdle
    /\ prompts = <<>> /\ EasyIdle /\ GenIdle /\ RaceIdle

SpecTranslate == InitTranslate /\ [][NextTranslate]_vars

(***************************************************************************)
(* regenerate-easy-read-v2.py                                              *)
(***************************************************************************)
UpperCase == <<"A", "B", "C", "D", "E", "F", "G", "H", "I", "J", "K", "L", "M",
               "N", "O", "P", "Q", "R", "S", "T", "U", "V", "W", "X", "Y", "Z">>

LowerCase == <<"a", "b", "c", "d", "e", "f", "g", "h", "i", "j", "k", "l", "m",
               "n", "o", "p", "q", "r", "s", "t", "u", "v", "w", "x", "y", "z">>

\* str.isupper for one character.
IsUpper(c) == \E i \in 1..26 : UpperCase[i] = c

\* str.lower
Lower(s) == [i \in 1..Len(s) |->
               IF IsUpper(s[i]) THEN LowerCase[CHOOSE j \in 1..26 : UpperCase[j] = s[i]]
               ELSE s[i]]

\* str.endswith
EndsWith(s, p) == Len(s) >= Len(p) /\ Drop(s, Len(s) - Len(p)) = p

\* sub in s
Contains(s, sub) == \E i \in 0..(Len(s) - Len(sub)) : SubSeq(s, i + 1, i + Len(sub)) = sub

\* str.replace(c, '') for one character c.
RemoveChar(s, c) == LET Keep(x) == x # c IN SelectSeq(s, Keep)

\* str.isdigit
IsDigitStr(s) == Len(s) > 0 /\ AllDigits(s)

\* str.split(): the words between runs of white space.
RECURSIVE SplitWords(_)
SplitWords(s) ==
    LET t == LStrip(s)
        ends == {i \in 1..Len(t) : IsSpace(t[i])}
        n == IF ends = {} THEN Len(t) + 1
             ELSE CHOOSE i \in ends : \A j \in ends : i <= j
    IN  IF Len(t) = 0 THEN <<>>
        ELSE <<Take(t, n - 1)>> \o SplitWords(Drop(t, n - 1))

simple_labels == {<<"t", "r", "u", "e">>, <<"f", "a", "l", "s", "e">>,
                  <<"m", "y", "t", "h", ":">>, <<"m", "y", "t", "h">>,
                  <<"f", "a", "c", "t", ":">>, <<"f", "a", "c", "t">>,
                  <<"y", "e", "s">>, <<"n", "o">>,
                  <<"c", "o", "r", "r", "e", "c", "t">>,
                  <<"i", "n", "c", "o", "r", "r", "e", "c", "t">>}

\* The prefixes '1.' to '9.' (upto = 9) or '1.' to '5.' (upto = 5).
NumberPrefixes(upto) == {<<Digits[d + 1], ".">> : d \in 1..upto}

\* get_processing_strategy: "copy", "simple" or "transform".
get_processing_strategy(text) ==
    LET text_stripped == Strip(text)
        word_count == Len(SplitWords(text_stripped))
        no_punct == RemoveChar(RemoveChar(RemoveChar(text_stripped, " "), "."), ",")
    IN  IF word_count <= 1 \/ Len(text_stripped) <= 3 THEN "copy"
        ELSE IF IsDigitStr(no_punct) THEN "copy"
        ELSE IF Lower(text_stripped) \in simple_labels THEN "copy"
        ELSE IF /\ word_count <= 4 /\ Len(text_stripped) <= 30
                /\ IsUpper(text_stripped[1])
                /\ ~EndsWith(text_stripped, <<".">>)
                /\ ~EndsWith(text_stripped, <<"!">>)
                /\ ~EndsWith(text_stripped, <<"?">>)
             THEN "simple"
        ELSE IF /\ \E p \in NumberPrefixes(9) : StartsWith(text_stripped, p)
                /\ word_count <= 8
             THEN "simple"
        ELSE IF word_count <= 6 THEN "simple"
        ELSE "transform"

\* emoji_map, in the order of the dict; each emoji literal of the source is
\* one character here, named after the first keyword that has it.
emoji_map == <<
    <<<<"c", "o", "n", "t", "e", "n", "t", "s">>, "[contents]">>,
    <<<<"i", "n", "d", "e", "x">>, "[index]">>,
    <<<<"i", "n", "t", "r", "o", "d", "u", "c", "t", "i", "o", "n">>, "[introduction]">>,
    <<<<"b", "i", "b", "l", "i", "o", "g", "r", "a", "p", "h", "y">>, "[bibliography]">>,
    <<<<"r", "e", "f", "e", "r", "e", "n", "c", "e", "s">>, "[references]">>,
    <<<<"s", "e", "l", "f", "-", "c", "a", "r", "e">>, "[self-care]">>,
    <<<<"p", "h", "y", "s", "i", "c", "a", "l">>, "[physical]">>,
    <<<<"e", "m", "o", "t", "i", "o", "n", "a", "l">>, "[emotional]">>,
    <<<<"m", "e", "n", "t", "a", "l">>, "[mental]">>,
    <<<<"c", "o", "g", "n", "i", "t", "i", "v", "e">>, "[cognitive]">>,
    <<<<"s", "o", "c", "i", "a", "l">>, "[social]">>,
    <<<<"s", "p", "i", "r", "i", "t", "u", "a", "l">>, "[spiritual]">>,
    <<<<"w", "e", "l", "l", "b", "e", "i", "n", "g">>, "[wellbeing]">>,
    <<<<"h", "e", "a", "l", "t", "h">>, "[health]">>,
    <<<<"e", "x", "e", "r", "c", "i", "s", "e">>, "[exercise]">>,
    <<<<"n", "u", "t", "r", "i", "t", "i", "o", "n">>, "[nutrition]">>,
    <<<<"s", "l", "e", "e", "p">>, "[sleep]">>,
    <<<<"m", "e", "d", "i", "t", "a", "t", "i", "o", "n">>, "[meditation]">>,
    <<<<"b", "r", "e", "a", "t", "h", "i", "n", "g">>, "[breathing]">>,
    <<<<"m", "i", "n", "d", "f", "u", "l", "n", "e", "s", "s">>, "[mindfulness]">>,
    <<<<"r", "e", "l", "a", "t", "i", "o", "n", "s", "h", "i", "p">>, "[relationship]">>,
    <<<<"c", "o", "m", "m", "u", "n", "i", "c", "a", "t", "i", "o", "n">>, "[communication]">>,
    <<<<"s", "u", "p", "p", "o", "r", "t">>, "[support]">>,
    <<<<"f", "a", "m", "i", "l", "y">>, "[family]">>,
    <<<<"f", "r", "i", "e", "n", "d", "s">>, "[friends]">>,
    <<<<"l", "e", "a", "r", "n", "i", "n", "g">>, "[contents]">>,
    <<<<"g", "r", "o", "w", "t", "h">>, "[growth]">>,
    <<<<"d", "e", "v", "e", "l", "o", "p", "m", "e", "n", "t">>, "[development]">>,
    <<<<"s", "k", "i", "l", "l", "s">>, "[skills]">>,
    <<<<"p", "r", "a", "c", "t", "i", "c", "e">>, "[mindfulness]">>,
    <<<<"s", "t", "r", "e", "s", "s">>, "[stress]">>,
    <<<<"a", "n", "x", "i", "e", "t", "y">>, "[anxiety]">>,
    <<<<"d", "e", "p", "r", "e", "s", "s", "i", "o", "n">>, "[depression]">>,
    <<<<"j", "o", "y">>, "[joy]">>,
    <<<<"p", "e", "a", "c", "e">>, "[peace]">>,
    <<<<"c", "a", "l", "m">>, "[calm]">>,
    <<<<"g", "o", "a", "l">>, "[mindfulness]">>,
    <<<<"p", "l", "a", "n">>, "[plan]">>,
    <<<<"r", "o", "u", "t", "i", "n", "e">>, "[routine]">>,
    <<<<"h", "a", "b", "i", "t">>, "[habit]">>,
    <<<<"s", "t", "e", "p">>, "[step]">>,
    <<<<"d", "a", "i", "l", "y">>, "[daily]">>,
    <<<<"w", "e", "e", "k", "l", "y">>, "[weekly]">>,
    <<<<"m", "o", "r", "n", "i", "n", "g">>, "[morning]">>,
    <<<<"e", "v", "e", "n", "i", "n", "g">>, "[evening]">>,
    <<<<"t", "i", "m", "e">>, "[time]">>>>

\* The emoji of the first keyword of emoji_map that the text contains, with
\* the blank that follows it; '' when there is none.
RECURSIVE KeywordEmoji(_, _)
KeywordEmoji(map, text_lower) ==
    IF Len(map) = 0 THEN <<>>
    ELSE IF Contains(text_lower, map[1][1]) THEN <<map[1][2], " ">>
    ELSE KeywordEmoji(Tail(map), text_lower)

\* The 'simple' branch of process_text_by_strategy: the emoji of a keyword,
\* or else one for a question, a numbered item or a short capitalised text.
AddEmoji(text) ==
    LET text_lower == Strip(Lower(text))
        found == KeywordEmoji(emoji_map, text_lower)
        emoji == IF found # <<>> THEN found
                 ELSE IF EndsWith(text, <<"?">>) THEN <<"[question]", " ">>
                 ELSE IF \E p \in NumberPrefixes(5) : Contains(text, p)
                      THEN <<"[pin]", " ">>
                 ELSE IF IsUpper(text[1]) /\ Len(SplitWords(text)) <= 4
                      THEN <<"[plan]", " ">>
                 ELSE <<>>
    IN  emoji \o text

\* What the model answers to a request to simplify text.
EasyReadResponse(text) == <<" ", "[index]", " ">> \o Take(text, 5) \o <<"\n">>

\* f'Failed to simplify: {text}'
FailedToSimplify(text) ==
    <<"F", "a", "i", "l", "e", "d", " ", "t", "o", " ", "s", "i", "m", "p", "l", "i", "f", "y",
      ":", " ">> \o text

\* transform_to_easy_read: the stripped answer, or the placeholder when the
\* request (or the missing API key) raises.
transform_to_easy_read(text, outcome) ==
    IF outcome = "error" THEN FailedToSimplify(text)
    ELSE Strip(EasyReadResponse(text))

\* process_text_by_strategy
process_text_by_strategy(text, strategy, outcome) ==
    IF strategy = "copy" THEN text
    ELSE IF strategy = "simple" THEN AddEmoji(text)
    ELSE IF strategy = "transform" THEN transform_to_easy_read(text, outcome)
    ELSE text

\* f"[DRY RUN] Would process {key} with {strategy} strategy: {original_text[:50]}..."
StrategyName(strategy) ==
    IF strategy = "copy" THEN <<"c", "o", "p", "y">>
    ELSE IF strategy = "simple" THEN <<"s", "i", "m", "p", "l", "e">>
    ELSE <<"t", "r", "a", "n", "s", "f", "o", "r", "m">>

EasyDryRunText(key, strategy, original_text) ==
    <<"[", "D", "R", "Y", " ", "R", "U", "N", "]", " ", "W", "o", "u", "l", "d", " ",
      "p", "r", "o", "c", "e", "s", "s", " ">> \o key
    \o <<" ", "w", "i", "t", "h", " ">> \o StrategyName(strategy)
    \o <<" ", "s", "t", "r", "a", "t", "e", "g", "y", ":", " ">>
    \o Take(original_text, IF Len(original_text) < 50 THEN Len(original_text) ELSE 50)
    \o <<".", ".", ".">>

\* parse_text_id: (X, Y) of text-X-Y, (0, 0) when there are fewer than three
\* fields or a field is not an integer.
parse_text_id(text_id) ==
    LET parts == Split(text_id, "-")
    IN  IF Len(parts) >= 3 /\ IntParses(parts[2]) /\ IntParses(parts[3])
        THEN <<IntOf(parts[2]), IntOf(parts[3])>>
        ELSE <<0, 0>>

\* Mutant of TupleLeq: only the pages are compared.
TupleLeqPageOnly(a, b) == a[1] <= b[1]

\* a <= b for two (page, section) tuples of Python.
TupleLeq(a, b) == a[1] < b[1] \/ (a[1] = b[1] /\ a[2] <= b[2])

\* is_in_range; an absent bound (None) is the empty string.
is_in_range(text_id, start_id, end_id) ==
    LET current == parse_text_id(text_id)
        start == IF start_id # <<>> THEN parse_text_id(start_id) ELSE <<0, 0>>
        end == IF end_id # <<>> THEN parse_text_id(end_id) ELSE <<999, 999>>
    IN  IF start_id = <<>> /\ end_id = <<>> THEN TRUE
        ELSE IF start_id # <<>> /\ end_id = <<>> THEN TupleLeq(start, current)
        ELSE IF start_id = <<>> /\ end_id # <<>> THEN TupleLeq(current, end)
        ELSE TupleLeq(start, current) /\ TupleLeq(current, end)

IsEasyRead == script = "regenerate_easy_read"

\* SOURCE_FILE and TARGET_FILE: both content/i18n/<lang>/texts.json.
SOURCE_FILE == TextsFile(args.lang)

TARGET_FILE == TextsFile(args.lang)

\* The loop of process_translations handles this key: an original text
\* entry that is in the requested range.
Processed(key) ==
    /\ StartsWith(key, TextPrefix) /\ ~StartsWith(key, EasyreadPrefix)
    /\ (args.start # <<>> \/ args.end # <<>>) => is_in_range(key, args.start, args.end)

\* process_translations up to json.load(SOURCE_FILE): the run ends when the
\* file is missing (return) or is not JSON (the exception is logged).
ErLoadSource ==
    /\ IsEasyRead /\ pc = "source"
    /\ IF fs[SOURCE_FILE].st = "ok"
       THEN /\ source_translations' = fs[SOURCE_FILE].d
            /\ pc' = "target"
            /\ UNCHANGED exit_code
       ELSE /\ pc' = "exit" /\ exit_code' = 0
            /\ UNCHANGED source_translations
    /\ UNCHANGED <<script, args, fs, api_calls, uncaught, last_merge, prompts,
                   er_result, er_item, regenVars, timecodeVars, translateVars,
                   genVars, raceVars>>

\* Mutant of CopyOfTarget: result starts empty.
CopyOfTargetEmpty(file) == <<>>

\* result = target_translations.copy(), target_translations being the
\* table of the file, or {} when the file does not exist.
CopyOfTarget(file) == file.d

\* The target table is loaded when the file exists, and copied to result.
ErLoadTarget ==
    /\ IsEasyRead /\ pc = "target"
    /\ IF fs[TARGET_FILE].st = "malformed"
       THEN /\ pc' = "exit" /\ exit_code' = 0
            /\ UNCHANGED er_result
       ELSE /\ er_result' = CopyOfTarget(fs[TARGET_FILE])
            /\ pc' = "loop"
            /\ UNCHANGED exit_code
    /\ UNCHANGED <<script, args, fs, api_calls, uncaught, last_merge, prompts,
                   source_translations, er_item, regenVars, timecodeVars,
                   translateVars, genVars, raceVars>>

\* transform_to_easy_read raises before any request when OPENAI_API_KEY is
\* not set (lines 312-314); the exception is caught and the placeholder
\* returned.
NeedsRequest(strategy) == strategy = "transform" /\ args.api_key

\* One pass of the loop over source_translations.items(), up to the request
\* of transform_to_easy_read (line 331) when the text needs one, and to the
\* end of the pass otherwise.
ErItem ==
    /\ IsEasyRead /\ pc = "loop"
    /\ er_item <= Len(source_translations)
    /\ LET key == source_translations[er_item][1]
           original_text == source_translations[er_item][2]
           easy_read_key == EasyreadPrefix \o key
           strategy == get_processing_strategy(original_text)
       IN  IF ~Processed(key)
           THEN /\ er_item' = er_item + 1
                /\ UNCHANGED <<er_result, api_calls, pc>>
           ELSE IF args.dry_run
           THEN /\ er_result' = Put(er_result, easy_read_key,
                                    EasyDryRunText(key, strategy, original_text))
                /\ er_item' = er_item + 1
                /\ UNCHANGED <<api_calls, pc>>
           ELSE IF NeedsRequest(strategy)
           THEN /\ api_calls' = Append(api_calls, Call("easyread", key))
                /\ pc' = "request"
                /\ UNCHANGED <<er_result, er_item>>
           ELSE /\ er_result' = Put(er_result, easy_read_key,
                         process_text_by_strategy(original_text, strategy, "error"))
                /\ er_item' = er_item + 1
                /\ UNCHANGED <<api_calls, pc>>
    /\ UNCHANGED <<script, args, fs, exit_code, uncaught, last_merge, prompts,
                   source_translations, regenVars, timecodeVars, translateVars,
                   genVars, raceVars>>

\* The request returns or raises, and the pass ends: the easy-read text or
\* the placeholder is stored in result (line 493).
ErStore ==
    /\ IsEasyRead /\ pc = "request"
    /\ LET key == source_translations[er_item][1]
           original_text == source_translations[er_item][2]
       IN  \E outcome \in {"text", "error"} :
              er_result' = Put(er_result, EasyreadPrefix \o key,
                               process_text_by_strategy(original_text, "transform", outcome))
    /\ er_item' = er_item + 1
    /\ pc' = "loop"
    /\ UNCHANGED <<script, args, fs, api_calls, exit_code, uncaught, last_merge, prompts,
                   source_translations, regenVars, timecodeVars, translateVars,
                   genVars, raceVars>>

\* The bytes of a string in the file: json.dump(..., ensure_ascii=False)
\* escapes a quote, a backslash and a newline with two bytes and UTF-8 takes
\* two for an accented letter. An emoji is written as its literal stands in
\* the source, a sequence of several characters: the bytes of each literal
\* of emoji_map and of the three generic emoji are those of its UTF-8 form.
StrBytes(str) ==
    LET bytes(c) ==
            IF c \in {"\"", "\\", "\n", "á", "é", "í", "ó", "ñ", "¿", "Ó"} THEN 2
            ELSE IF c = "[time]" THEN 4
            ELSE IF c = "[question]" THEN 5
            ELSE IF c \in {"[spiritual]", "[support]"} THEN 6
            ELSE IF c \in {"[exercise]", "[habit]"} THEN 7
            ELSE IF c \in {"[emotional]", "[mental]", "[wellbeing]", "[health]", "[sleep]",
                           "[mindfulness]", "[growth]", "[stress]", "[anxiety]", "[calm]"}
                 THEN 8
            ELSE IF c \in {"[contents]", "[physical]", "[cognitive]", "[social]",
                           "[nutrition]", "[communication]", "[friends]", "[development]",
                           "[depression]", "[joy]", "[step]", "[morning]", "[evening]",
                           "[pin]"}
                 THEN 9
            ELSE IF c \in {"[index]", "[introduction]", "[bibliography]", "[references]",
                           "[relationship]", "[peace]", "[plan]", "[routine]", "[daily]"}
                 THEN 10
            ELSE IF c = "[breathing]" THEN 12
            ELSE IF c = "[skills]" THEN 13
            ELSE IF c = "[weekly]" THEN 14
            ELSE IF c = "[meditation]" THEN 25
            ELSE IF c = "[self-care]" THEN 27
            ELSE IF c = "[family]" THEN 51
            ELSE 1
        wide == {i \in 1..Len(str) : bytes(str[i]) > 1}
    IN  Len(str) + Cardinality({p \in wide \X (1..50) : p[2] < bytes(str[p[1]])})

\* The bytes of json.dump(table, file, ensure_ascii=False, indent=2): an
\* entry is written as '  "key": "value"', the entries are joined by ',\n'
\* and put between '{\n' and '\n}'; the empty table is '{}'.
RECURSIVE EntryBytes(_, _)
EntryBytes(d, i) ==
    IF i > Len(d) THEN 0
    ELSE StrBytes(d[i][1]) + StrBytes(d[i][2]) + 10 + EntryBytes(d, i + 1)

JsonSize(d) == IF Len(d) = 0 THEN 2 ELSE EntryBytes(d, 1) + 2

\* The bytes of a file; a file that was just opened for writing is empty.
FileSize(file) ==
    IF file.st = "ok" THEN JsonSize(file.d)
    ELSE IF file.d = <<>> THEN 0
    ELSE JsonSize(file.d) + 1

\* open(file, 'w'): the file is created or truncated; empty, it is not JSON.
Truncated == [st |-> "malformed", d |-> <<>>]

\* The file after json.dump has written a table through a handle opened
\* earlier (the tables are small, so the bytes are written when the handle
\* is closed): the bytes go to the start of the file, and what another
\* process has written beyond them in the meantime stays, which leaves no
\* JSON document.
Dumped(file, table) ==
    IF FileSize(file) > JsonSize(table) THEN Unparsable(table) ELSE File(table)

\* Mutant of WriteTarget: the current file is read again and updated.
WriteTargetMerged(table) == SortKeys(DictUpdate(fs[TARGET_FILE].d, table))

\* json.dump(result, file, ..., sort_keys=True): the table that is written.
WriteTarget(table) == SortKeys(table)

\* After the loop TARGET_FILE is opened for writing (line 499), with or
\* without --dry-run.
ErOpen ==
    /\ IsEasyRead /\ pc = "loop"
    /\ er_item > Len(source_translations)
    /\ fs' = [fs EXCEPT ![TARGET_FILE] = Truncated]
    /\ pc' = "dump"
    /\ UNCHANGED <<script, args, api_calls, exit_code, uncaught, last_merge, prompts,
                   easyVars, regenVars, timecodeVars, translateVars, genVars, raceVars>>

\* json.dump(result, file, ...) and the end of the with block (line 500).
ErWrite ==
    /\ IsEasyRead /\ pc = "dump"
    /\ fs' = [fs EXCEPT ![TARGET_FILE] = Dumped(@, WriteTarget(er_result))]
    /\ pc' = "exit" /\ exit_code' = 0
    /\ UNCHANGED <<script, args, api_calls, uncaught, last_merge, prompts, easyVars,
                   regenVars, timecodeVars, translateVars, genVars, raceVars>>

NextEasyRead == ErLoadSource \/ ErLoadTarget \/ ErItem \/ ErStore \/ ErOpen \/ ErWrite

(***************************************************************************)
(* The table an easy-read run starts from: the texts of test_easy_read.py, *)
(* an easy-read entry of an earlier run, a question, a text whose key has  *)
(* no numbers and an image entry.                                          *)
(***************************************************************************)
Text_6_1 ==
    <<"9">>

Text_0_0 ==
    <<"S", "e", "l", "f", "-", "C", "a", "r", "e", " ", "M", "a", "n", "u",
      "a", "l">>

Text_13_11 ==
    <<"T", "r", "u", "e">>

Text_19_3 ==
    <<"1", ".", " ", "M", "a", "i", "n", "t", "a", "i", "n", "i", "n", "g",
      " ", "a", " ", "h", "e", "a", "l", "t", "h", "y", " ", "d", "i", "e",
      "t", ":">>

Text_14_1 ==
    <<"M", "y", "t", "h">>

Text_13_15 ==
    <<"M", "y", "t", "h", ":">>

Text_10_3 ==
    <<"I", "t", " ", "i", "s", " ", "a", " ", "l", "i", "f", "e", " ", "a",
      "c", "t", " ", "t", "h", "a", "t", " ", "e", "n", "a", "b", "l", "e",
      "s", " ", "i", "n", "d", "i", "v", "i", "d", "u", "a", "l", "s", " ",
      "t", "o", " ", "b", "e", "c", "o", "m", "e", " ", "a", "c", "t", "i",
      "v", "e", " ", "p", "a", "r", "t", "i", "c", "i", "p", "a", "n", "t",
      "s", " ", "i", "n", " ", "t", "h", "e", " ", "c", "a", "r", "e", " ",
      "o", "f", " ", "t", "h", "e", "i", "r", " ", "h", "e", "a", "l", "t",
      "h", " ", "a", "n", "d", " ", "i", "s", " ", "a", " ", "v", "o", "l",
      "u", "n", "t", "a", "r", "y", " ", "p", "r", "o", "c", "e", "s", "s",
      " ", "u", "n", "d", "e", "r", "t", "a", "k", "e", "n", " ", "b", "y",
      " ", "t", "h", "e", " ", "p", "e", "r", "s", "o", "n", " ", "f", "o",
      "r", " ", "t", "h", "e", "m", "s", "e", "l", "v", "e", "s", ".">>

Text_11_2 ==
    <<"I", "n", "c", "o", "r", "p", "o", "r", "a", "t", "i", "n", "g", " ",
      "s", "e", "l", "f", "-", "c", "a", "r", "e", " ", "r", "o", "u", "t",
      "i", "n", "e", "s", " ", "i", "s", " ", "k", "e", "y", " ", "t", "o",
      " ", "i", "m", "p", "r", "o", "v", "i", "n", "g", " ", "q", "u", "a",
      "l", "i", "t", "y", " ", "o", "f", " ", "l", "i", "f", "e", " ", "a",
      "n", "d", " ", "p", "r", "e", "v", "e", "n", "t", "i", "n", "g", " ",
      "b", "o", "t", "h", " ", "p", "h", "y", "s", "i", "c", "a", "l", " ",
      "a", "n", "d", " ", "m", "e", "n", "t", "a", "l", " ", "i", "l", "l",
      "n", "e", "s", "s", "e", "s", " ", "(", "s", "u", "c", "h", " ", "a",
      "s", " ", "a", "n", "x", "i", "e", "t", "y", ",", " ", "d", "e", "p",
      "r", "e", "s", "s", "i", "o", "n", ",", " ", "a", "m", "o", "n", "g",
      " ", "o", "t", "h", "e", "r", "s", ")", ",", " ", "a", "s", " ", "w",
      "e", "l", "l", " ", "a", "s", " ", "f", "o", "r", " ", "r", "e", "c",
      "o", "v", "e", "r", "y", " ", "i", "n", " ", "t", "h", "e", " ", "e",
      "v", "e", "n", "t", " ", "o", "f", " ", "e", "x", "p", "e", "r", "i",
      "e", "n", "c", "i", "n", "g", " ", "t", "h", "e", "m", ".">>

Question ==
    <<"W", "h", "a", "t", " ", "i", "s", " ", "i", "t", "?">>

AndSoOn ==
    <<"a", "n", "d", " ", "s", "o", " ", "o", "n">>

EasyTable ==
    <<<<TextKey(6, 1), Text_6_1>>,
      <<TextKey(0, 0), Text_0_0>>,
      <<TextKey(13, 11), Text_13_11>>,
      <<EasyreadPrefix \o TextKey(13, 11), Old>>,
      <<TextKey(19, 3), Text_19_3>>,
      <<TextKey(14, 1), Text_14_1>>,
      <<TextKey(13, 15), Text_13_15>>,
      <<TextKey(10, 3), Text_10_3>>,
      <<TextKey(11, 2), Text_11_2>>,
      <<TextKey(14, 2), Question>>,
      <<TextPrefix \o <<"x">>, AndSoOn>>,
      <<ImgKey, Old>>>>

\* The values of --start and --end tried; the empty string is an absent one.
StartIds == {<<>>, TextKey(10, 3), TextKey(13, 15)}

EndIds == {<<>>, TextKey(13, 15), TextKey(6, 1)}

\* The state when a run of regenerate-easy-read-v2.py starts.
EasyReadStart ==
    /\ script = "regenerate_easy_read"
    /\ pc = "source"
    /\ \E s \in StartIds, e \in EndIds, l \in {"es", "en"}, dry \in BOOLEAN,
          key \in BOOLEAN :
         args = [start |-> s, end |-> e, lang |-> l, dry_run |-> dry, api_key |-> key]
    /\ \E t \in {Missing, Malformed, File(EasyTable)} :
         fs = [n \in FileNames |-> IF n = TextsFile(args.lang) THEN t ELSE File(EnTable)]
    /\ api_calls = <<>>
    /\ exit_code = -1
    /\ uncaught = "none"
    /\ last_merge = NoMerge
    /\ RegenIdle
    /\ TimecodeIdle
    /\ TranslateIdle
    /\ prompts = <<>> /\ EasyIdle /\ GenIdle

InitEasyRead == EasyReadStart /\ RaceIdle

SpecEasyRead == InitEasyRead /\ [][NextEasyRead]_vars

(***************************************************************************)
(* A run of regenerate-easy-read-v2.py and, at the same time, a call of    *)
(* save_generated_texts of regenerate_text.py for the same texts.json.     *)
(* Each process reads the file and later writes it; nothing orders the     *)
(* steps of one process with those of the other.                           *)
(***************************************************************************)
\* generated_texts of the second run: an ELI5 entry of its own.
OtherGenerated == <<<<TargetKey(TextKey(6, 1), "eli5"), NewText>>>>

\* existing_texts = json.load(f) when the file exists (lines 304-308); invalid
\* JSON raises and save_generated_texts returns False.
OtherLoad ==
    /\ other_pc = "start"
    /\ IF fs[TARGET_FILE].st = "malformed"
       THEN /\ other_pc' = "failed"
            /\ UNCHANGED other_existing
       ELSE /\ other_pc' = "loaded"
            /\ other_existing' = fs[TARGET_FILE].d
    /\ UNCHANGED <<script, pc, args, fs, api_calls, exit_code, uncaught, last_merge,
                   prompts, easyVars, regenVars, timecodeVars, translateVars, genVars>>

\* existing_texts.update(generated_texts) and open(texts_file, 'w') (lines
\* 311-314): the file is truncated.
OtherOpen ==
    /\ other_pc = "loaded"
    /\ fs' = [fs EXCEPT ![TARGET_FILE] = Truncated]
    /\ other_pc' = "opened"
    /\ UNCHANGED <<script, pc, args, api_calls, exit_code, uncaught, last_merge,
                   prompts, easyVars, regenVars, timecodeVars, translateVars, genVars,
                   other_existing>>

\* json.dump(existing_texts, f, ...) (line 315): the table loaded earlier
\* with the new entries is written, and True returned.
OtherWrite ==
    /\ other_pc = "opened"
    /\ fs' = [fs EXCEPT ![TARGET_FILE] =
                 Dumped(@, DictUpdate(other_existing, OtherGenerated))]
    /\ other_pc' = "done"
    /\ UNCHANGED <<script, pc, args, api_calls, exit_code, uncaught, last_merge,
                   prompts, easyVars, regenVars, timecodeVars, translateVars, genVars,
                   other_existing>>

InitRace == EasyReadStart /\ other_pc = "start" /\ other_existing = <<>>

NextRace == NextEasyRead \/ OtherLoad \/ OtherOpen \/ OtherWrite

SpecRace == InitRace /\ [][NextRace]_vars

(***************************************************************************)
(* generate-eli5.py                                                        *)
(***************************************************************************)
\* The HTML pages of the directory, as find_html_files of generate-eli5.py
\* returns them (the matches of '*_adt.html' and 'index.html', sorted):
\* the path, the data-id attributes of the elements in document order, and
\* the <img> elements with their data-id ('' when absent), whether the file
\* that src names is on disk, and whether the element has an aria-label or
\* data-aria-id that the image script removes as redundant.
Page1 == <<".", "/", "1", "_", "0", "_", "a", "d", "t", ".", "h", "t", "m",
           "l">>

Page2 == <<".", "/", "2", "_", "0", "_", "a", "d", "t", ".", "h", "t", "m",
           "l">>

IndexPage == <<".", "/", "i", "n", "d", "e", "x", ".", "h", "t", "m", "l">>

NoId == <<>>

ImgKey2 == <<"i", "m", "g", "-", "1", "-", "1">>

ImgKey3 == <<"i", "m", "g", "-", "2", "-", "0">>

ImgKey4 == <<"i", "m", "g", "-", "2", "-", "1">>

html_files ==
    <<[path |-> Page1,
       data_ids |-> <<TextKey(1, 0), ImgKey, TextKey(1, 1), ImgKey2>>,
       imgs |-> <<[data_id |-> ImgKey, on_disk |-> TRUE, aria |-> TRUE],
                  [data_id |-> ImgKey2, on_disk |-> TRUE, aria |-> TRUE],
                  [data_id |-> NoId, on_disk |-> TRUE, aria |-> FALSE]>>],
      [path |-> Page2,
       data_ids |-> <<TextKey(2, 0), ImgKey3, ImgKey4>>,
       imgs |-> <<[data_id |-> ImgKey3, on_disk |-> TRUE, aria |-> FALSE],
                  [data_id |-> ImgKey4, on_disk |-> FALSE, aria |-> FALSE]>>],
      [path |-> IndexPage,
       data_ids |-> <<TextKey(0, 0)>>,
       imgs |-> <<>>]>>

Languages == <<"es", "en">>

\* os.path.basename
RECURSIVE Basename(_)
Basename(path) == LET i == IndexOf(path, "/", 1)
                  IN  IF i = 0 THEN path ELSE Basename(Drop(path, i))

\* str.replace(old, new) for one character old.
ReplaceChar(s, old, new) == [i \in 1..Len(s) |-> IF s[i] = old THEN new ELSE s[i]]

\* extract_section_id: '26_0_adt.html' -> '26-0'.
extract_section_id(file_path) ==
    LET filename == Basename(file_path)
        base_name == RemoveAll(RemoveAll(filename, <<".", "h", "t", "m", "l">>),
                               <<"_", "a", "d", "t">>)
    IN  ReplaceChar(base_name, "_", "-")

\* The section id that process_html_file uses: '0-0' for index.html.
SectionId(file_path) ==
    IF Contains(file_path, <<"i", "n", "d", "e", "x", ".", "h", "t", "m", "l">>)
    THEN <<"0", "-", "0">>
    ELSE extract_section_id(file_path)

\* ' '.join(texts)
RECURSIVE JoinWithBlank(_)
JoinWithBlank(texts) ==
    IF Len(texts) = 0 THEN <<>>
    ELSE IF Len(texts) = 1 THEN texts[1]
    ELSE texts[1] \o <<" ">> \o JoinWithBlank(Tail(texts))

\* The stripped, non-empty texts of the text- data-ids that the table has.
RECURSIVE CollectedTexts(_, _)
CollectedTexts(data_ids, table) ==
    IF Len(data_ids) = 0 THEN <<>>
    ELSE LET data_id == data_ids[1]
             rest == CollectedTexts(Tail(data_ids), table)
         IN  IF /\ StartsWith(data_id, TextPrefix)
                /\ HasKey(table, data_id)
                /\ Strip(Get(table, data_id)) # <<>>
             THEN <<Strip(Get(table, data_id))>> \o rest
             ELSE rest

\* extract_text_content
extract_text_content(file, lang) ==
    JoinWithBlank(CollectedTexts(file.data_ids, i18n_data[lang]))

\* str.strip(chars): the leading and trailing characters of the set removed.
RECURSIVE StripChars(_, _)
StripChars(s, chars) ==
    IF Len(s) > 0 /\ s[1] \in chars THEN StripChars(Tail(s), chars)
    ELSE IF Len(s) > 0 /\ s[Len(s)] \in chars THEN StripChars(Take(s, Len(s) - 1), chars)
    ELSE s

\* What the model answers to a request for an explanation.
Eli5Response(outcome) ==
    IF outcome = "text" THEN <<" ", "\"">> \o NewText \o <<"e", "l", "i", "5", "\"", "\n">>
    ELSE <<" ", "\"", "\"">>

\* generate_eli5_explanation once the request is made: the answer stripped
\* of white space and then of quotes; None (here "None") when the request
\* raises.
generate_eli5_explanation(outcome) ==
    IF outcome = "error" THEN "None"
    ELSE StripChars(Strip(Eli5Response(outcome)), {"\"", "'"})

\* Python truth of an Optional[str].
Truthy(v) == v # "None" /\ v # <<>>

IsEli5 == script = "generate_eli5"

force_regenerate == args.force

\* load_i18n_files: the table of each language, {} when the file is missing
\* or cannot be parsed.
load_i18n_files == [lang \in {"es", "en"} |-> load_texts(lang)]

\* save_i18n_files: each table is dumped to its file.
save_i18n_files == [n \in FileNames |-> File(IF n = EnFile THEN i18n_data.en ELSE i18n_data.es)]

\* main up to the loop over the files: without an API key the script
\* returns; otherwise the generator is built, which loads the tables.
GenMain ==
    /\ script \in {"generate_eli5", "generate_image_descriptions"} /\ pc = "main"
    /\ IF args.api_key
       THEN /\ i18n_data' = load_i18n_files
            /\ pc' = "files"
            /\ UNCHANGED exit_code
       ELSE /\ pc' = "exit" /\ exit_code' = 0
            /\ UNCHANGED i18n_data
    /\ UNCHANGED <<script, args, fs, api_calls, uncaught, last_merge, prompts,
                   file_idx, lang_idx, updated, any_updated, stripped,
                   regenVars, timecodeVars, translateVars, easyVars, raceVars>>

\* Mutant of SkipExisting: an existing explanation never stops the request.
SkipExistingNever(has_eli5) == FALSE

\* 'if has_eli5 and not self.force_regenerate: continue'
SkipExisting(has_eli5) == has_eli5 /\ ~force_regenerate

\* One pass of the loop over the languages in process_html_file; after the
\* second language the function returns and process_all_files goes on to
\* the next file.
Eli5Language ==
    /\ IsEli5 /\ pc = "files"
    /\ file_idx <= Len(html_files)
    /\ LET file == html_files[file_idx]
           lang == Languages[lang_idx]
           eli5_key == Eli5Prefix \o SectionId(file.path)
           has_eli5 == HasKey(i18n_data[lang], eli5_key)
           text_content == extract_text_content(file, lang)
           Finish(upd) ==
               IF lang_idx < Len(Languages)
               THEN /\ lang_idx' = lang_idx + 1
                    /\ updated' = upd
                    /\ UNCHANGED <<file_idx, any_updated>>
               ELSE /\ lang_idx' = 1
                    /\ updated' = FALSE
                    /\ file_idx' = file_idx + 1
                    /\ any_updated' = (any_updated \/ upd)
       IN  IF SkipExisting(has_eli5) \/ text_content = <<>>
           THEN /\ UNCHANGED <<api_calls, i18n_data>>
                /\ Finish(updated)
           ELSE /\ api_calls' = Append(api_calls, Call(lang, eli5_key))
                /\ \E outcome \in {"text", "blank", "error"} :
                     LET eli5_explanation == generate_eli5_explanation(outcome)
                     IN  IF Truthy(eli5_explanation)
                         THEN /\ i18n_data' = [i18n_data EXCEPT
                                    ![lang] = Put(@, eli5_key, eli5_explanation)]
                              /\ Finish(TRUE)
                         ELSE /\ UNCHANGED i18n_data
                              /\ Finish(updated)
    /\ UNCHANGED <<script, pc, args, fs, exit_code, uncaught, last_merge, prompts, stripped,
                   regenVars, timecodeVars, translateVars, easyVars, raceVars>>

\* process_all_files of generate-eli5.py after the loop: the tables are
\* saved when a file was updated; main returns.
GenSave ==
    /\ IsEli5 /\ pc = "files"
    /\ file_idx > Len(html_files)
    /\ fs' = IF any_updated THEN save_i18n_files ELSE fs
    /\ pc' = "exit" /\ exit_code' = 0
    /\ UNCHANGED <<script, args, api_calls, uncaught, last_merge, prompts, genVars,
                   regenVars, timecodeVars, translateVars, easyVars, raceVars>>

NextEli5 == (IsEli5 /\ GenMain) \/ Eli5Language \/ GenSave

(***************************************************************************)
(* The tables a generator run starts from.                                 *)
(***************************************************************************)
Eli5Key(section) == Eli5Prefix \o section

\* Spanish: the texts of the three pages, an explanation of page 1 and the
\* description of one image.
GenEsTable ==
    <<<<TextKey(1, 0), A>>,
      <<TextKey(1, 1), <<" ">> \o B \o <<" ">>>>,
      <<TextKey(2, 0), C>>,
      <<TextKey(0, 0), A>>,
      <<Eli5Key(<<"1", "-", "0">>), Old>>,
      <<ImgKey, Old>>>>

\* English: page 2 has only a blank text; explanations of page 2 and of the
\* index page; the description of another image.
GenEnTable ==
    <<<<TextKey(1, 0), A>>,
      <<TextKey(2, 0), <<" ">>>>,
      <<TextKey(0, 0), B>>,
      <<Eli5Key(<<"2", "-", "0">>), Old>>,
      <<Eli5Key(<<"0", "-", "0">>), Old>>,
      <<ImgKey3, Old>>>>

\* The state when main() of a generator starts.
GenStart ==
    /\ pc = "main"
    /\ \E force \in BOOLEAN, key \in BOOLEAN : args = [force |-> force, api_key |-> key]
    /\ \E es \in {Missing, Malformed, Unparsable(GenEsTable), File(GenEsTable)},
          en \in {Missing, Malformed, Unparsable(GenEnTable), File(GenEnTable)} :
         fs = [n \in FileNames |-> IF n = EsFile THEN es ELSE en]
    /\ api_calls = <<>>
    /\ exit_code = -1
    /\ uncaught = "none"
    /\ last_merge = NoMerge
    /\ RegenIdle
    /\ TimecodeIdle
    /\ TranslateIdle
    /\ prompts = <<>> /\ EasyIdle /\ GenIdle /\ RaceIdle

InitEli5 == script = "generate_eli5" /\ GenStart

SpecEli5 == InitEli5 /\ [][NextEli5]_vars

(***************************************************************************)
(* generate-image-descriptions.py                                          *)
(***************************************************************************)
IsImage == script = "generate_image_descriptions"

\* What the model answers to a request for a description.
ImageResponse(outcome) ==
    IF outcome = "text" THEN <<"\"">> \o NewText \o <<"i", "m", "g", "\"", " ">>
    ELSE <<"\n">>

\* generate_image_description once the image is encoded and the request is
\* made: the answer stripped of white space and then of quotes; None (here
\* "None") when the request raises.
generate_image_description(outcome) ==
    IF outcome = "error" THEN "None"
    ELSE StripChars(Strip(ImageResponse(outcome)), {"\"", "'"})

\* has_description (lines 265-279): the data-id is in the table of either
\* language.
HasDescription(data_id) ==
    /\ data_id # NoId
    /\ \E lang \in {"es", "en"} : HasKey(i18n_data[lang], data_id)

\* 'if (not has_description or self.force_regenerate) and data_id:', the
\* test that guards the requests of both languages.
NeedsDescription(data_id) ==
    (~HasDescription(data_id) \/ force_regenerate) /\ data_id # NoId

\* The table of a language after the description was generated for it.
StoreDescription(table, data_id, description) ==
    IF Truthy(description) THEN Put(table, data_id, description) ELSE table

\* find_html_files of generate-image-descriptions.py (lines 108-123): the
\* matches of '*.html' and of '**/*.html' with recursive=True, which matches
\* the pages of the directory itself as well, joined and sorted: every page
\* of the directory is listed twice.
find_html_files == [i \in 1..(2 * Len(html_files)) |-> html_files[(i + 1) \div 2]]

\* One pass of the loop over the images of a page: the description is
\* requested for the languages that need it, if the image can be read, and
\* stored when the answer is not empty; redundant aria attributes of an
\* image that had a description are removed from the page.
ImageImg ==
    /\ IsImage /\ pc = "files"
    /\ file_idx <= Len(find_html_files)
    /\ lang_idx <= Len(find_html_files[file_idx].imgs)
    /\ LET file == find_html_files[file_idx]
           img == file.imgs[lang_idx]
           data_id == img.data_id
           has_description == HasDescription(data_id)
           aria == img.aria /\ <<file.path, lang_idx>> \notin stripped
           wanted == {lang \in {"es", "en"} : NeedsDescription(data_id) /\ img.on_disk}
           Calls(l) == IF l \in wanted THEN <<Call(l, data_id)>> ELSE <<>>
       IN  /\ api_calls' = api_calls \o Calls("es") \o Calls("en")
           /\ \E es \in {"text", "blank", "error"}, en \in {"text", "blank", "error"} :
                LET description == [lang \in {"es", "en"} |->
                        IF lang \in wanted
                        THEN generate_image_description(IF lang = "es" THEN es ELSE en)
                        ELSE "None"]
                IN  /\ i18n_data' = [lang \in {"es", "en"} |->
                           StoreDescription(i18n_data[lang], data_id, description[lang])]
                    /\ updated' = (\/ updated
                                   \/ \E lang \in {"es", "en"} : Truthy(description[lang])
                                   \/ (has_description /\ aria))
           /\ stripped' = IF has_description /\ aria
                          THEN stripped \cup {<<file.path, lang_idx>>}
                          ELSE stripped
    /\ lang_idx' = lang_idx + 1
    /\ UNCHANGED <<script, pc, args, fs, exit_code, uncaught, last_merge, prompts,
                   file_idx, any_updated,
                   regenVars, timecodeVars, translateVars, easyVars, raceVars>>

\* process_html_file after the loop: the page is written back when it or a
\* table was updated, and process_all_files goes on to the next page.
ImageFileDone ==
    /\ IsImage /\ pc = "files"
    /\ file_idx <= Len(find_html_files)
    /\ lang_idx > Len(find_html_files[file_idx].imgs)
    /\ any_updated' = (any_updated \/ updated)
    /\ updated' = FALSE
    /\ file_idx' = file_idx + 1
    /\ lang_idx' = 1
    /\ UNCHANGED <<script, pc, args, fs, api_calls, exit_code, uncaught, last_merge,
                   prompts, i18n_data, stripped,
                   regenVars, timecodeVars, translateVars, easyVars, raceVars>>

\* process_all_files of generate-image-descriptions.py after the loop.
ImageSave ==
    /\ IsImage /\ pc = "files"
    /\ file_idx > Len(find_html_files)
    /\ fs' = IF any_updated THEN save_i18n_files ELSE fs
    /\ pc' = "exit" /\ exit_code' = 0
    /\ UNCHANGED <<script, args, api_calls, uncaught, last_merge, prompts, genVars,
                   regenVars, timecodeVars, translateVars, easyVars, raceVars>>

NextImage == (IsImage /\ GenMain) \/ ImageImg \/ ImageFileDone \/ ImageSave

InitImage == script = "generate_image_descriptions" /\ GenStart

SpecImage == InitImage /\ [][NextImage]_vars

(***************************************************************************)
(* A run of any one of the scripts.                                        *)
(***************************************************************************)
Init == InitRegen \/ InitTimecode \/ InitImageTimecode \/ InitTranslate \/ InitEasyRead
           \/ InitEli5 \/ InitImage

Next == NextRegen \/ NextTimecode \/ NextImageTimecode \/ NextTranslate \/ NextEasyRead
           \/ NextEli5 \/ NextImage

Spec == Init /\ [][Next]_vars

\* The four scripts that call an API item by item.
InitBatch == InitRegen \/ InitTimecode \/ InitImageTimecode \/ InitTranslate

NextBatch == NextRegen \/ NextTimecode \/ NextImageTimecode \/ NextTranslate

SpecBatch == InitBatch /\ [][NextBatch]_vars

\* The steps of the batch scripts after their first API call: the loops of
\* the two timecode scripts, the translation loop, the callbacks of the
\* event loop, the executor threads and the summary.  A signal is left out:
\* nothing makes one arrive.
BatchStep ==
    \/ TcItem \/ TcPredict \/ TcDone
    \/ ItcItem \/ ItcPredict \/ ItcWrite
    \/ TrTranslateGpt5
    \/ RegenTaskStart \/ RegenTake \/ RegenSend \/ RegenAnswer \/ RegenSetResult
    \/ RegenApiReturn \/ RegenAcquire \/ RegenSummary

\* The steps between two pairs and the save of the translations: each is a
\* test of the program counter followed by assignments that change pc or
\* pair, so it can be taken exactly when its test holds.
TableStep == RegenBeginPair \/ RegenFinishPair \/ TrSave

TableStepReady ==
    \/ /\ script = "regenerate_text"
       /\ \/ pc = "pair" /\ pair <= Len(Pairs)
          \/ pc = "gather" /\ GatherDone
    \/ IsTranslate /\ pc = "translate" /\ next_text > Len(page_texts)

\* The batch scripts run on: each is a sequential program, the event loop
\* runs the callbacks it holds, the executor threads take and send the
\* requests they are given, and every API call returns or raises.  A step
\* that stays possible is taken; for the steps of TableStep the condition
\* is written as their test.
FairSpec ==
    /\ SpecBatch
    /\ WF_vars(BatchStep)
    /\ ([]<>~TableStepReady \/ []<><<TableStep>>_vars)

(***************************************************************************)
(* Claims.                                                                 *)
(***************************************************************************)
\* C5: a merge into an existing table keeps every key that is not newly
\* produced, with its value, and gives every newly produced key its new
\* value (merge_with_existing_english and save_json_file, and
\* save_generated_texts).
C5_MergePreservesUntouchedKeys ==
    last_merge.file # "none" =>
        LET after == fs[last_merge.file]
            before == last_merge.before.d
            new == last_merge.new
        IN  /\ after.st = "ok"
            /\ \A k \in DictKeys(before) \ DictKeys(new) :
                  HasKey(after.d, k) /\ Get(after.d, k) = Get(before, k)
            /\ \A k \in DictKeys(new) :
                  HasKey(after.d, k) /\ Get(after.d, k) = Get(new, k)

\* A merge that kept a key, replaced the value of another and added a third.
C5_Witness ==
    /\ last_merge.file # "none"
    /\ \E k \in DictKeys(last_merge.before.d) \ DictKeys(last_merge.new) :
          Get(fs[last_merge.file].d, k) = Old
    /\ \E k \in DictKeys(last_merge.before.d) \cap DictKeys(last_merge.new) :
          Get(fs[last_merge.file].d, k) # Get(last_merge.before.d, k)
    /\ DictKeys(last_merge.new) \ DictKeys(last_merge.before.d) # {}

\* A key of the form text-<digits>-<digits>, the whole key.
HasTextForm(key) ==
    LET parts == Split(key, "-")
    IN  /\ Len(parts) = 3
        /\ parts[1] = <<"t", "e", "x", "t">>
        /\ Len(parts[2]) > 0 /\ AllDigits(parts[2])
        /\ Len(parts[3]) > 0 /\ AllDigits(parts[3])

\* C6: extract_page_range_texts returns exactly the entries whose key has
\* the form text-<digits>-<digits> and whose page number p satisfies
\* page_start <= p <= page_end, in both translation scripts, for every table
\* and every page range.
C6_ExtractsExactlyTextKeysInRange ==
    (IsTranslate /\ pc # "main" /\ fs[EsFile].st = "ok") =>
        DictKeys(page_texts) =
            {k \in DictKeys(fs[EsFile].d) :
                /\ HasTextForm(k)
                /\ args.page_start <= DigitsVal(Split(k, "-")[2])
                /\ DigitsVal(Split(k, "-")[2]) <= PageEnd}

\* Whether the audio file of an entry is named and on disk.
HasAudio(data_id) ==
    /\ HasKey(data.audio_files, data_id)
    /\ Get(data.audio_files, data_id) # ""
    /\ AudioPath(args.audio_folder, Get(data.audio_files, data_id)) \in args.audio_on_disk

\* No failed call ends a script with an exception, and at the normal end of a
\* run every matching item has been attempted: every text key with an audio
\* file that was not aligned before (timecodes), every image key with an
\* audio file (the earlier timecode script), every extracted text (GPT
\* translation), every selected text that is not blank, of every pair
\* (regeneration started with an API key and a page range in order).
AllItemsAttempted ==
    /\ api_calls # <<>> => uncaught = "none"
    /\ (script = "calculate_timecodes" /\ pc = "exit" /\ ~signalled
        /\ client = "connected") =>
          /\ exit_code = 0
          /\ \A i \in 1..Len(data.texts) :
                (HasTextForm(data.texts[i][1]) /\ HasAudio(data.texts[i][1])) =>
                    \/ Issued("align", data.texts[i][1]) = 1
                    \/ /\ Issued("align", data.texts[i][1]) = 0
                       /\ args.continue_from
                       /\ HasKey(timecode_results, data.texts[i][1])
    /\ (script = "calculate_image_timecodes" /\ pc = "exit" /\ client = "connected") =>
          /\ exit_code = 0
          /\ \A i \in 1..Len(data.texts) :
                (ValidImageKey(data.texts[i][1]) /\ HasAudio(data.texts[i][1])) =>
                    Issued("align", data.texts[i][1]) = 1
    /\ (script = "translate_gpt5" /\ pc = "exit" /\ Len(page_texts) > 0
        /\ ~args.dry_run) =>
          /\ exit_code = 0
          /\ \A i \in 1..Len(page_texts) : Issued("translate", page_texts[i][1]) = 1
    /\ (script = "regenerate_text" /\ pc = "exit" /\ args.api_key
        /\ args.start_page <= args.end_page) =>
          /\ Len(run_results) = Len(Pairs)
          /\ \A i \in 1..Len(run_results) :
                /\ run_results[i].language = Pairs[i][1]
                /\ \A key \in DictKeys(run_results[i].filtered_texts) :
                      Len(Strip(Get(run_results[i].filtered_texts, key))) > 0
                          => Issued(run_results[i].language, key) = 1

\* The API call of an item has failed: an alignment that was answered left
\* no result, a translation holds the placeholder of a failed request, a
\* regeneration request of a text that is not blank came back empty.
ItemFailed ==
    \/ /\ script \in {"calculate_timecodes", "calculate_image_timecodes"}
       /\ \E i \in 1..Len(api_calls) :
             /\ i < Len(api_calls) \/ pc # "predict"
             /\ ~HasKey(timecode_results, api_calls[i].key)
    \/ /\ script = "translate_gpt5"
       /\ \E i \in 1..Len(page_texts) :
             /\ HasKey(english_translations, page_texts[i][1])
             /\ Get(english_translations, page_texts[i][1]) =
                   TranslationError(page_texts[i][2])
    \/ /\ script = "regenerate_text"
       /\ \/ \E key \in DOMAIN answered : answered[key] = <<>>
          \/ \E key \in DOMAIN task_results :
                /\ ~IsBlank(Get(filtered_texts, key))
                /\ task_results[key] = <<>>
          \/ \E i \in 1..Len(run_results) :
                \E key \in DictKeys(run_results[i].filtered_texts) :
                   /\ ~IsBlank(Get(run_results[i].filtered_texts, key))
                   /\ ~HasKey(run_results[i].generated_texts, key)

\* The normal end of a run: the timecode loops ran out and the script
\* exited with status 0 (or the run was interrupted by a signal and saved
\* its checkpoint), the translations were saved and the script exited with
\* status 0, the regeneration handled every pair and printed its summary.
RunEnded ==
    /\ pc = "exit"
    /\ uncaught = "none"
    /\ script = "calculate_timecodes" => exit_code = 0
    /\ script = "calculate_image_timecodes" =>
          exit_code = 0 /\ fs[DefaultOutput] = File(timecode_results)
    /\ script = "translate_gpt5" =>
          exit_code = 0 /\ next_text = Len(page_texts) + 1
    /\ script = "regenerate_text" =>
          Len(run_results) = Len(Pairs) /\ exit_code = 1

\* C7: no item failure aborts the batch.  A failed API call is caught (no
\* exception leaves the script), at the end of a run that no signal
\* interrupted every matching item has been attempted, and a run in which
\* the call of an item has failed goes on to its normal end, whatever the
\* later calls answer and in whatever order the threads send and answer.
C7_NoItemFailureAbortsBatch ==
    /\ []AllItemsAttempted
    /\ ItemFailed ~> RunEnded

\* A regeneration of two pairs has ended with its summary: a request of the
\* first pair failed, the other text of that pair was generated, and the
\* second pair was regenerated after it.
C7_Witness ==
    /\ script = "regenerate_text" /\ pc = "exit" /\ exit_code = 1
    /\ args # BusyArgs
    /\ Len(run_results) = 2
    /\ \E key \in DictKeys(run_results[1].filtered_texts) :
          /\ ~IsBlank(Get(run_results[1].filtered_texts, key))
          /\ ~HasKey(run_results[1].generated_texts, key)
          /\ Issued(run_results[1].language, key) = 1
    /\ Len(run_results[1].generated_texts) > 0
    /\ Len(run_results[2].generated_texts) > 0

\* C8 as stated: no script is ended by an uncaught exception when an input
\* file is missing or holds malformed JSON, or when an audio file is missing.
C8_NoUncaughtException == uncaught = "none"

\* C9: at most 3 connection attempts; the script sleeps 5*k seconds after
\* failed attempt k (k = 1, 2) before the next attempt; no attempt follows a
\* successful one; after the 3rd failure the script has exited with status 1
\* and no alignment was requested.
C9_ThreeAttemptsLinearBackoff ==
    /\ Len(conn_log) <= 3
    /\ \A k \in 1..Len(conn_log) : conn_log[k] => k = Len(conn_log)
    /\ Len(slept) <= 2
    /\ \A k \in 1..Len(slept) : slept[k] = 5 * k /\ ~conn_log[k]
    /\ Len(conn_log) > 0 => Len(slept) >= Len(conn_log) - 1
    /\ pc = "sleep" => /\ Len(conn_log) \in {1, 2}
                       /\ ~conn_log[Len(conn_log)]
                       /\ wait_time = 5 * Len(conn_log)
    /\ (Len(conn_log) = 3 /\ ~conn_log[3]) =>
          pc = "exit" /\ exit_code = 1 /\ api_calls = <<>>
    /\ api_calls # <<>> => (client = "connected" /\ conn_log[Len(conn_log)])

\* Three failed attempts, with sleeps of 5 and 10 seconds between them.
C9_Witness ==
    /\ conn_log = <<FALSE, FALSE, FALSE>>
    /\ slept = <<5, 10>>
    /\ exit_code = 1

\* C10: a signal is handled in every state of the running script; once it is
\* handled the output file named by output_file holds the results in memory,
\* the script has exited with status 0, and no alignment is requested
\* afterwards.
C10_CheckpointOnInterrupt ==
    /\ []((script = "calculate_timecodes" /\ pc # "exit") => ENABLED TcSignal)
    /\ [](signalled => /\ pc = "exit"
                       /\ exit_code = 0
                       /\ fs[output_file] = File(timecode_results))
    /\ [][signalled => api_calls' = api_calls]_vars

\* The script was interrupted in the loop, after two alignments, with entries
\* left to process.
C10_Witness ==
    /\ signalled
    /\ Len(api_calls) = 2
    /\ item <= Len(data.texts)
    /\ Len(timecode_results) >= 2
    /\ fs[output_file].d = timecode_results

\* The keys aligned in this run: requested, and stored since.
Succeeded ==
    {api_calls[i].key : i \in {j \in 1..Len(api_calls) :
                                  /\ api_calls[j].scope = "align"
                                  /\ HasKey(timecode_results, api_calls[j].key)}}

\* C13: in the timecode script the output file is rewritten with the full
\* result set in the step that stores a result; once a result has been saved,
\* whenever the loop is at an entry the output file holds exactly the results
\* in memory, which are the results of the entries aligned so far (and, with
\* --continue_from, the loaded ones).
C13_FileHoldsResultsAfterEachItem ==
    /\ []((script = "calculate_timecodes" /\ pc = "loop" /\ Succeeded # {}) =>
            /\ fs[output_file] = File(timecode_results)
            /\ \A k \in Succeeded :
                  Get(timecode_results, k).timecodes = "aligned"
            /\ DictKeys(timecode_results) \ Succeeded \subseteq
                  (IF args.continue_from THEN DictKeys(PrevResults) ELSE {}))
    /\ [][(script = "calculate_timecodes" /\ timecode_results' # timecode_results
           /\ pc = "predict") =>
             fs'[output_file] = File(timecode_results')]_vars

\* The loop is at an entry after two alignments of this run were saved.
C13_Witness ==
    /\ script = "calculate_timecodes" /\ pc = "loop" /\ item <= Len(data.texts)
    /\ ~args.continue_from
    /\ Cardinality(Succeeded) = 2
    /\ Len(fs[output_file].d) = 2

\* C16: with --continue_from, once the output file has been loaded, no key
\* held in the results is sent to the alignment API, no entry of the results
\* is changed or dropped, and every entry of the results is in the output
\* file with the same value.
C16_LoadedKeysNeverRealigned ==
    /\ [][(script = "calculate_timecodes" /\ api_calls' # api_calls) =>
            ~HasKey(timecode_results, api_calls'[Len(api_calls')].key)]_vars
    /\ [][script = "calculate_timecodes" =>
            \A k \in DictKeys(timecode_results) :
                /\ HasKey(timecode_results', k)
                /\ Get(timecode_results', k) = Get(timecode_results, k)]_vars
    /\ []((script = "calculate_timecodes" /\ args.continue_from
           /\ pc \notin {"parse_args", "load_existing"}) =>
             \A k \in DictKeys(timecode_results) :
                 /\ HasKey(fs[output_file].d, k)
                 /\ Get(fs[output_file].d, k) = Get(timecode_results, k))

\* A continued run ended after aligning other entries: the loaded entry was
\* not requested and is in the output file as it was.
C16_Witness ==
    /\ script = "calculate_timecodes" /\ args.continue_from /\ pc = "exit"
    /\ ~signalled
    /\ Cardinality(Succeeded) = 2
    /\ Issued("align", TextKey(1, 0)) = 0
    /\ Get(fs[output_file].d, TextKey(1, 0)) = Get(PrevResults, TextKey(1, 0))

\* C14: with --dry-run translate_gpt5.py issues no API request, and neither
\* translation script creates or changes a file.
C14_DryRunTouchesNothing ==
    /\ []((IsTranslate /\ args.dry_run) => api_calls = <<>>)
    /\ [][(IsTranslate /\ args.dry_run) => fs' = fs]_vars

\* A dry run of translate_gpt5.py ended normally after going through two
\* texts, with the English table as it was.
C14_Witness ==
    /\ script = "translate_gpt5" /\ args.dry_run
    /\ pc = "exit" /\ exit_code = 0
    /\ Len(english_translations) >= 2
    /\ fs[EnFile] = File(EnTable)

\* The page and the text index of a text key, as numbers.
PageAndNumber(key) ==
    LET parts == Split(key, "-")
    IN  <<DigitsVal(parts[2]), DigitsVal(parts[3])>>

\* C18: translate_gpt5.py issues its translation requests one at a time in
\* ascending (page, text index) order, whatever the order of the Spanish
\* file: a request is issued only when every request before it has given its
\* translation or its placeholder, and every extracted key that is smaller
\* has been requested before.
C18_SequentialInNumericOrder ==
    script = "translate_gpt5" =>
        /\ \A i, j \in 1..Len(api_calls) :
              i < j =>
                 LET a == PageAndNumber(api_calls[i].key)
                     b == PageAndNumber(api_calls[j].key)
                 IN  a[1] < b[1] \/ (a[1] = b[1] /\ a[2] <= b[2])
        /\ \A i \in 1..Len(api_calls) :
              HasKey(english_translations, api_calls[i].key)
        /\ \A i \in 1..Len(api_calls), n \in 1..Len(page_texts) :
              LET a == PageAndNumber(api_calls[i].key)
                  b == PageAndNumber(page_texts[n][1])
              IN  (b[1] < a[1] \/ (b[1] = a[1] /\ b[2] < a[2])) =>
                     Issued("translate", page_texts[n][1]) = 1

\* Four requests were made, in numeric order although the file lists page 2
\* first, the first of them having failed.
C18_Witness ==
    /\ script = "translate_gpt5"
    /\ Len(api_calls) = 4
    /\ api_calls[1].key = TextKey(1, 0)
    /\ api_calls[2].key = TextKey(1, 1)
    /\ api_calls[4].key = TextKey(2, 0)
    /\ Get(english_translations, TextKey(1, 0)) = TranslationError(B)

\* The last n elements of a sequence, all of it when it has fewer.
LastN(seq, n) == SubSeq(seq, (IF Len(seq) > n THEN Len(seq) - n ELSE 0) + 1, Len(seq))

\* C19: every translation prompt includes at most max_context_pairs (the
\* --context-size value) earlier translation pairs, and they are the most
\* recently added ones, for every context size >= 0.
C19_PromptHoldsLastContextPairs ==
    script = "translate_gpt5" =>
        \A i \in 1..Len(prompts) :
            /\ Len(prompts[i].included) <= args.context_size
            /\ prompts[i].included = LastN(prompts[i].earlier, args.context_size)


\* The run of regenerate-easy-read-v2.py has gone through its loop and ended.
EasyReadRan ==
    /\ IsEasyRead /\ pc = "exit"
    /\ Len(source_translations) > 0 /\ er_item > Len(source_translations)

\* C11: after a run of translate_gpt5.py without --dry-run every extracted
\* key has an entry in the saved English table, a translation or the
\* '[TRANSLATION ERROR: ...]' placeholder; after a run of
\* regenerate-easy-read-v2.py every text- key in the range has an
\* 'easyread-<key>' entry in the saved table, its easy-read text or the
\* 'Failed to simplify: ...' placeholder.
C11_FailedCallYieldsPlaceholder ==
    /\ (script = "translate_gpt5" /\ pc = "exit" /\ exit_code = 0 /\ ~args.dry_run) =>
          \A i \in 1..Len(page_texts) :
             /\ HasKey(fs[EnFile].d, page_texts[i][1])
             /\ Get(fs[EnFile].d, page_texts[i][1]) \in
                   {TranslationError(page_texts[i][2])}
                   \cup {Unquote(Strip(ApiResponse(o))) : o \in {"text", "blank"}}
    /\ EasyReadRan =>
          \A i \in 1..Len(source_translations) :
             LET key == source_translations[i][1]
                 text == source_translations[i][2]
             IN  Processed(key) =>
                   /\ HasKey(fs[TARGET_FILE].d, EasyreadPrefix \o key)
                   /\ Get(fs[TARGET_FILE].d, EasyreadPrefix \o key) \in
                         {process_text_by_strategy(text, get_processing_strategy(text), o) :
                            o \in {"text", "error"}}

\* The texts that test_easy_read.py expects to be skipped, and those it
\* expects to be processed.
SkipCases == {Text_6_1, Text_0_0, Text_13_11, Text_19_3, Text_14_1, Text_13_15}

ProcessCases == {Text_10_3, Text_11_2}

\* A request to simplify the text of this key was sent.
Requested(key) == \E c \in 1..Len(api_calls) : api_calls[c] = Call("easyread", key)

\* C17: in a run without --dry-run, a text that is a single number, a short
\* title, a simple label, a short numbered list item or a single word is
\* skipped, that is, kept as it is and not sent to the API, while a long
\* multi-clause sentence is processed through the API.
C17_SkipDecisionAsTested ==
    (IsEasyRead /\ pc \in {"loop", "request", "dump", "exit"} /\ ~args.dry_run) =>
       \A i \in 1..(er_item - 1) :
          LET key == source_translations[i][1]
              text == source_translations[i][2]
          IN  Processed(key) =>
                /\ text \in SkipCases =>
                      /\ ~Requested(key)
                      /\ Get(er_result, EasyreadPrefix \o key) = text
                /\ text \in ProcessCases => Requested(key)

\* Both runs have ended successfully: each has written its table.
BothRan == EasyReadRan /\ other_pc = "done"

\* The table read by a run lacks entries that the other run has produced.
EasyReadStale == ~(DictKeys(OtherGenerated) \subseteq DictKeys(er_result))

OtherStale == ~(DictKeys(er_result) \subseteq DictKeys(other_existing))

\* The keys that a reader of the file finds in it.
ReadableKeys(file) == IF file.st = "ok" THEN DictKeys(file.d) ELSE {}

\* C12: two runs on the same texts.json are not ordered by any lock, and
\* each writes the table it read earlier, with its own keys, over the file.
\* There is an interleaving in which both end successfully and the file
\* lacks the keys of one of them (the witness).  In every interleaving, what
\* a run leaves in the file when it writes are keys of the table it read
\* and its own keys, never a key the other run has added since; and when
\* both have ended successfully after each has read the table before the
\* other wrote it, the file lacks keys written by one of them.
C12_UnlockedRunsLoseUpdates ==
    /\ []((BothRan /\ EasyReadStale /\ OtherStale) =>
            \/ ~(DictKeys(OtherGenerated) \subseteq ReadableKeys(fs[TARGET_FILE]))
            \/ ~(DictKeys(er_result) \subseteq ReadableKeys(fs[TARGET_FILE])))
    /\ [][(other_pc = "opened" /\ other_pc' = "done") =>
            ReadableKeys(fs'[TARGET_FILE]) \subseteq
                DictKeys(other_existing) \cup DictKeys(OtherGenerated)]_vars
    /\ [][(pc = "dump" /\ pc' = "exit") =>
            ReadableKeys(fs'[TARGET_FILE]) \subseteq DictKeys(er_result)]_vars

\* Both runs ended successfully, the file is a JSON table that holds an
\* easy-read entry written by the first run, and the entry that the second
\* run wrote is not in it: the easy-read run has overwritten it.
C12_Witness ==
    /\ BothRan
    /\ fs[TARGET_FILE].st = "ok"
    /\ ~(DictKeys(OtherGenerated) \subseteq DictKeys(fs[TARGET_FILE].d))
    /\ \E k \in DictKeys(er_result) : ~HasKey(EasyTable, k) /\ HasKey(fs[TARGET_FILE].d, k)

\* C15: without --force no request is made for a (language, section) whose
\* sectioneli5-<section> entry exists, and the entry keeps its value, in the
\* table in memory and in the file it was loaded from; with --force a request is
\* made for every section that has text content in the language, and an
\* existing entry changes only to the explanation of a successful request.
C15_ForceFlag ==
    [][IsEli5 /\ pc = "files" =>
         /\ file_idx <= Len(html_files) =>
               LET file == html_files[file_idx]
                   lang == Languages[lang_idx]
                   eli5_key == Eli5Key(SectionId(file.path))
                   has_eli5 == HasKey(i18n_data[lang], eli5_key)
                   requested == api_calls' = Append(api_calls, Call(lang, eli5_key))
               IN  /\ (~args.force /\ has_eli5) =>
                         api_calls' = api_calls /\ i18n_data' = i18n_data
                   /\ (args.force /\ extract_text_content(file, lang) # <<>>) => requested
                   /\ (has_eli5 /\ Get(i18n_data'[lang], eli5_key)
                                     # Get(i18n_data[lang], eli5_key)) =>
                         /\ requested
                         /\ Get(i18n_data'[lang], eli5_key) = generate_eli5_explanation("text")
         /\ (pc' = "exit" /\ ~args.force) =>
               \A n \in FileNames : \A k \in DictKeys(fs[n].d) :
                  (fs[n].st = "ok" /\ StartsWith(k, Eli5Prefix)) =>
                     HasKey(fs'[n].d, k) /\ Get(fs'[n].d, k) = Get(fs[n].d, k)
      ]_vars

\* A run with --force has ended: the Spanish explanation of page 1 was
\* replaced by a new one, the English one of the index page was requested
\* without success and is still the old one, and none was requested for
\* page 2 in English, which has no text.
C15_Witness ==
    /\ IsEli5 /\ pc = "exit" /\ args.force
    /\ HasKey(fs[EsFile].d, Eli5Key(<<"1", "-", "0">>))
    /\ HasKey(fs[EnFile].d, Eli5Key(<<"0", "-", "0">>))
    /\ Get(fs[EsFile].d, Eli5Key(<<"1", "-", "0">>)) = generate_eli5_explanation("text")
    /\ \E c \in 1..Len(api_calls) : api_calls[c] = Call("en", Eli5Key(<<"0", "-", "0">>))
    /\ Get(fs[EnFile].d, Eli5Key(<<"0", "-", "0">>)) = Old
    /\ \A c \in 1..Len(api_calls) : api_calls[c] # Call("en", Eli5Key(<<"2", "-", "0">>))

\* C20: for every <img> with a data-id and for each language whose table
\* has no entry for that data-id, a description is requested for that
\* language in the pass over the image, and the answer of a request that
\* succeeds is stored under the data-id.
C20_MissingDescriptionRequestedPerLanguage ==
    [][(IsImage /\ pc = "files" /\ file_idx <= Len(find_html_files)
          /\ lang_idx <= Len(find_html_files[file_idx].imgs)) =>
         LET data_id == find_html_files[file_idx].imgs[lang_idx].data_id
         IN  \A lang \in {"es", "en"} :
                (data_id # NoId /\ ~HasKey(i18n_data[lang], data_id)) =>
                   /\ \E c \in (Len(api_calls) + 1)..Len(api_calls') :
                         api_calls'[c] = Call(lang, data_id)
                   /\ HasKey(i18n_data'[lang], data_id) =>
                         Get(i18n_data'[lang], data_id) = generate_image_description("text")
      ]_vars

\* The second dash-separated field of the key is an integer in the range.
PageInRange(key, start_page, end_page) ==
    LET rest == Drop(key, Len(TextPrefix))
        dash == IndexOf(rest, "-", 1)
        field == IF dash = 0 THEN rest ELSE Take(rest, dash - 1)
    IN  /\ IntParses(field)
        /\ start_page <= IntOf(field) /\ IntOf(field) <= end_page

\* The (target key, text) pairs that the claim expects for a table.
ExpectedFiltered(texts, start_page, end_page, text_type) ==
    {<<(IF text_type = "easyread" THEN EasyreadPrefix \o texts[i][1]
        ELSE Eli5Prefix \o Drop(texts[i][1], Len(TextPrefix))),
       texts[i][2]>> :
       i \in {j \in 1..Len(texts) :
                /\ StartsWith(texts[j][1], TextPrefix)
                /\ PageInRange(texts[j][1], start_page, end_page)}}

\* C21: for every (language, type) pair of a run, the filtered texts are
\* exactly the entries of the table whose key starts with 'text-' and whose
\* second field is an integer between start_page and end_page, each under
\* 'easyread-<key>' or 'sectioneli5-<key without text->'; no key that starts
\* with easyread- or sectioneli5- is a source.
C21_FilterSelectsTextKeysInRange ==
    script = "regenerate_text" =>
       \A i \in 1..Len(run_results) :
          LET r == run_results[i]
              got == {r.filtered_texts[j] : j \in 1..Len(r.filtered_texts)}
          IN  /\ got = ExpectedFiltered(load_texts(r.language), args.start_page,
                                        args.end_page, r.text_type)
              /\ Cardinality(got) = Len(r.filtered_texts)

\* The ELI5 pair of the Spanish table was filtered for a range that holds
\* page 2: the text of page 2 is selected under sectioneli5-2-0, and the
\* existing sectioneli5-2-0 entry is not a source.
C21_Witness ==
    /\ script = "regenerate_text"
    /\ \E i \in 1..Len(run_results) :
          LET r == run_results[i]
          IN  /\ r.language = "es" /\ r.text_type = "eli5"
              /\ HasKey(r.filtered_texts, Eli5Prefix \o <<"2", "-", "0">>)
              /\ Get(r.filtered_texts, Eli5Prefix \o <<"2", "-", "0">>) = A
              /\ HasKey(load_texts("es"), Eli5Prefix \o <<"2", "-", "0">>)

\* The id has the form text-<page>-<section> with two numbers.
NumericId(id) ==
    LET parts == Split(id, "-")
    IN  Len(parts) = 3 /\ IntParses(parts[2]) /\ IntParses(parts[3])

\* The position of a numeric id in the lexicographic order of the (page,
\* section) pairs; sections are below 1000.
Position(id) == LET parts == Split(id, "-") IN IntOf(parts[2]) * 1000 + IntOf(parts[3])

\* The id lies between the bounds, a missing bound leaving its side open.
Between(id, start_id, end_id) ==
    /\ start_id # <<>> => Position(start_id) <= Position(id)
    /\ end_id # <<>> => Position(id) <= Position(end_id)

\* C22: for every text- key of the table with numeric fields, is_in_range is
\* true exactly when its (page, section) pair lies between those of --start
\* and --end inclusive, in lexicographic order, a missing bound leaving that
\* side open; and the run has given the key an easy-read entry exactly in
\* that case.
C22_InRangeIsLexicographic ==
    (IsEasyRead /\ pc \in {"loop", "request", "dump", "exit"}) =>
       \A i \in 1..Len(source_translations) :
          LET key == source_translations[i][1]
              easy_read_key == EasyreadPrefix \o key
              produced == /\ HasKey(er_result, easy_read_key)
                          /\ Get(er_result, easy_read_key) # Old
          IN  (StartsWith(key, TextPrefix) /\ NumericId(key)) =>
                /\ is_in_range(key, args.start, args.end)
                      <=> Between(key, args.start, args.end)
                /\ i < er_item => (produced <=> Between(key, args.start, args.end))

\* A run with --start text-13-15 and no --end has ended: text-13-11, on the
\* page of the bound and before it, got no entry, and text-14-1 got one.
C22_Witness ==
    /\ EasyReadRan
    /\ args.start = TextKey(13, 15) /\ args.end = <<>>
    /\ Get(er_result, EasyreadPrefix \o TextKey(13, 11)) = Old
    /\ HasKey(er_result, EasyreadPrefix \o TextKey(14, 1))
    /\ ~HasKey(er_result, EasyreadPrefix \o TextKey(6, 1))

\* The key is the easy-read key of a text- key of the table that the run
\* handles, that is, one inside the requested range.
EasyReadTarget(k) ==
    \E i \in 1..Len(source_translations) :
       /\ Processed(source_translations[i][1])
       /\ k = EasyreadPrefix \o source_translations[i][1]

\* C23: until the run opens the file for writing, the file holds the table
\* the run has read; and when the run writes its table, every entry of that
\* table other than the easyread- entries of the text- keys inside the
\* requested range is in the written file with the value it had, and every
\* key that the file gains is such an easyread- entry.
C23_OnlyEasyReadEntriesInRangeChange ==
    /\ []((IsEasyRead /\ pc \in {"target", "loop", "request"}) =>
             fs[TARGET_FILE] = File(source_translations))
    /\ [][(IsEasyRead /\ pc = "dump" /\ pc' = "exit") =>
            LET before == source_translations
                after == fs'[TARGET_FILE].d
            IN  /\ fs'[TARGET_FILE].st = "ok"
                /\ \A k \in DictKeys(before) :
                      ~EasyReadTarget(k) => HasKey(after, k) /\ Get(after, k) = Get(before, k)
                /\ \A k \in DictKeys(after) \ DictKeys(before) : EasyReadTarget(k)
         ]_vars

\* A run with --start text-13-15 has written the table: the easy-read
\* entry of text-13-11, which is before the range, the text entries and the
\* image entry have their old values, and text-14-1 has got its entry.
C23_Witness ==
    /\ EasyReadRan
    /\ args.start = TextKey(13, 15)
    /\ Get(fs[TARGET_FILE].d, EasyreadPrefix \o TextKey(13, 11)) = Old
    /\ Get(fs[TARGET_FILE].d, ImgKey) = Old
    /\ Get(fs[TARGET_FILE].d, TextKey(14, 1)) = Text_14_1
    /\ HasKey(fs[TARGET_FILE].d, EasyreadPrefix \o TextKey(14, 1))

\* C24: in a run of the timecode script with --continue_from whose output
\* file is readable, no step of the run, an interrupt and the exit after the
\* last connection failure included, drops or changes an entry stored in the
\* output file.
C24_ContinueNeverLosesProgress ==
    [][(script = "calculate_timecodes" /\ args.continue_from
        /\ fs[args.output].st = "ok") =>
          /\ fs'[args.output].st = "ok"
          /\ \A k \in DictKeys(fs[args.output].d) :
                /\ HasKey(fs'[args.output].d, k)
                /\ Get(fs'[args.output].d, k) = Get(fs[args.output].d, k)]_vars

\* C25: with --dry-run no step of regenerate-easy-read-v2.py changes a file:
\* texts.json keeps every entry with its value and is not rewritten.
C25_DryRunLeavesTextsUnchanged ==
    [][(IsEasyRead /\ args.dry_run) => fs' = fs]_vars

\* The request for this key in this language was sent in this run.
GeneratedInRun(lang, k) == \E c \in 1..Len(api_calls) : api_calls[c] = Call(lang, k)

\* C26: no step of generate-eli5.py or generate-image-descriptions.py removes
\* or changes, in the es or en texts.json, an entry whose key was not
\* generated in this run, whether the file could be loaded or not.
C26_GeneratorsKeepOtherKeys ==
    [][(IsEli5 \/ IsImage) =>
         \A lang \in {"es", "en"} :
            \A k \in DictKeys(fs[TextsFile(lang)].d) :
               \/ GeneratedInRun(lang, k)'
               \/ /\ HasKey(fs'[TextsFile(lang)].d, k)
                  /\ Get(fs'[TextsFile(lang)].d, k) = Get(fs[TextsFile(lang)].d, k)]_vars
====
